---- MODULE Spec2Model ----
(***************************************************************************)
(* Model of the MediNow conversation core:                                 *)
(*   backend/agents/state_machine.py    ConversationStateMachine           *)
(*   backend/agents/conversation.py     ConversationManager                *)
(*   backend/agents/message_handlers.py handle_message (dialogue driver)   *)
(*   backend/storage/database.py        Database (sessions table)          *)
(*                                                                         *)
(* Python objects live on a heap of mutable dicts and lists, so that two   *)
(* references to one object (aliases) and copies of it are different       *)
(* things.  Stored JSON text is modelled by the value tree it parses to.   *)
(***************************************************************************)
EXTENDS Integers, Sequences, FiniteSets, TLC

VARIABLES
    heap,       \* the Python heap: sequence of objects, address = index
    sm,         \* SpecSM: address of the machine under test (0: none)
    saved,      \* SpecSM history: the record as it was at each save_context
    ops,        \* SpecSM: number of operations performed so far
    sessions,   \* ConversationManager.sessions: session id -> machine address
    db,         \* the sessions table: session id -> stored row
    tasks,      \* handle_incoming_message calls suspended at an await
    persisted,  \* history: per session id, the machine as it was at the last
                \* save_session call that reached a healthy storage
    last,       \* observation of the last completed operation
    held        \* SpecSMDict: what else the caller of the machine holds, by
                \* name: the record to_dict() gave it, the machine from_dict()
                \* built for it

vars == <<heap, sm, saved, ops, sessions, db, tasks, persisted, last, held>>

(***************************************************************************)
(* Bounds of the model.                                                    *)
(***************************************************************************)
\* most handle_incoming_message calls suspended at the same time (SpecConc)
MaxTasks == 2

\* most snapshots a caller keeps on the context stack of a machine
MaxStack == 1

MaxOps == 6

(***************************************************************************)
(* Python values.  A value is a scalar or a reference to a heap object.    *)
(***************************************************************************)
None == [t |-> "none", v |-> "None"]
True == [t |-> "bool", v |-> TRUE]
False == [t |-> "bool", v |-> FALSE]
Str(s) == [t |-> "str", v |-> s]
Date(s) == [t |-> "date", v |-> s]
Enum(n) == [t |-> "enum", v |-> n]
Ref(a) == [t |-> "ref", v |-> a]
Dict(f) == [t |-> "dict", v |-> f]
List(s) == [t |-> "list", v |-> s]

NoExc == "none"

ConversationState ==
    { "IDLE", "GREETING",
      "COLLECTING_DATE", "COLLECTING_TIME", "SHOWING_AVAILABLE_SLOTS",
      "COLLECTING_PATIENT_INFO", "CONFIRMING_APPOINTMENT", "BOOKING_APPOINTMENT",
      "IDENTIFYING_USER", "SHOWING_USER_APPOINTMENTS",
      "SELECTING_APPOINTMENT_TO_CANCEL", "CONFIRMING_CANCELLATION",
      "CANCELLING_APPOINTMENT",
      "SELECTING_APPOINTMENT_TO_RESCHEDULE", "COLLECTING_NEW_DATE",
      "COLLECTING_NEW_TIME", "SHOWING_RESCHEDULE_SLOTS", "CONFIRMING_RESCHEDULE",
      "RESCHEDULING_APPOINTMENT",
      "OFF_TOPIC" }

(***************************************************************************)
(* Heap helpers.                                                           *)
(***************************************************************************)
Obj(kind, d) == [kind |-> kind, d |-> d]

Range(s) == { s[i] : i \in DOMAIN s }

RECURSIVE SetToSeq(_)
SetToSeq(S) ==
    IF S = {} THEN << >>
    ELSE LET x == CHOOSE y \in S : TRUE IN <<x>> \o SetToSeq(S \ {x})

KeySeq(o) ==
    IF o.kind = "list" THEN [i \in 1..Len(o.d) |-> i] ELSE SetToSeq(DOMAIN o.d)

Put(d, k, v) == [x \in (DOMAIN d) \cup {k} |-> IF x = k THEN v ELSE d[x]]

\* the tree of plain values an object graph denotes (what == compares)
RECURSIVE Deep(_, _)
Deep(h, v) ==
    IF v.t = "ref"
    THEN LET o == h[v.v] IN
         [t |-> o.kind, v |-> [k \in DOMAIN o.d |-> Deep(h, o.d[k])]]
    ELSE v

\* fresh objects for a tree of plain values
RECURSIVE Build(_, _), BuildItems(_, _, _, _)
BuildItems(h, f, ks, acc) ==
    IF ks = << >> THEN [h |-> h, d |-> acc]
    ELSE LET k == Head(ks)
             r == Build(h, f[k])
         IN BuildItems(r.h, f, Tail(ks), acc @@ (k :> r.ret))
Build(h, tr) ==
    IF tr.t \in {"dict", "list", "machine"}
    THEN LET r == BuildItems(h, tr.v, KeySeq(Obj(tr.t, tr.v)), << >>)
         IN [h |-> Append(r.h, Obj(tr.t, r.d)), ret |-> Ref(Len(r.h) + 1)]
    ELSE [h |-> h, ret |-> tr]

\* addresses an object refers to, in a fixed order
Children(h, a) ==
    LET o == h[a]
        ks == KeySeq(o)
        refs == SelectSeq(ks, LAMBDA k : o.d[k].t = "ref")
    IN [i \in 1..Len(refs) |-> o.d[refs[i]].v]

RECURSIVE Walk(_, _, _)
Walk(h, todo, seen) ==
    IF todo = << >> THEN seen
    ELSE LET a == Head(todo) IN
         IF a \in Range(seen) THEN Walk(h, Tail(todo), seen)
         ELSE Walk(h, Children(h, a) \o Tail(todo), Append(seen, a))

\* garbage collection and renumbering: the objects reachable from roots,
\* numbered in traversal order, so that equal object graphs are equal states
Order(h, roots) == Walk(h, roots, << >>)

Index(ord) == [a \in Range(ord) |-> CHOOSE i \in 1..Len(ord) : ord[i] = a]

RenV(v, map) == IF v.t = "ref" THEN Ref(map[v.v]) ELSE v

CompactBy(h, ord, map) ==
    [i \in 1..Len(ord) |->
        LET o == h[ord[i]] IN Obj(o.kind, [k \in DOMAIN o.d |-> RenV(o.d[k], map)])]

Compact(h, roots) ==
    LET ord == Order(h, roots) IN CompactBy(h, ord, Index(ord))

(***************************************************************************)
(* ConversationStateMachine (state_machine.py).  Every operation maps a    *)
(* heap and the address m of the machine to the new heap, the returned     *)
(* value and the exception raised, if any.                                 *)
(***************************************************************************)
Res(h, ret, exc) == [h |-> h, ret |-> ret, exc |-> exc]

Attr(h, m, name) == h[m].d[name]

ConversationStateMachine(h) ==
    LET n == Len(h)
        h1 == h \o << Obj("dict", << >>),
                      Obj("list", << >>),
                      Obj("list", << >>),
                      Obj("list", << >>),
                      Obj("machine",
                          [state |-> Enum("IDLE"),
                           appointment_data |-> Ref(n + 1),
                           available_slots |-> Ref(n + 2),
                           selected_slot |-> None,
                           context_stack |-> Ref(n + 3),
                           user_appointments |-> Ref(n + 4)]) >>
    IN Res(h1, Ref(n + 5), NoExc)

\* transition_to that refuses to leave OFF_TOPIC (only restore_context would)
transition_to_guarded(h, m, new_state) ==
    IF Attr(h, m, "state").t # "enum" \/ new_state.t # "enum"
    THEN Res(h, None, "AttributeError")
    ELSE IF Attr(h, m, "state") = Enum("OFF_TOPIC") THEN Res(h, None, NoExc)
    ELSE Res([h EXCEPT ![m].d.state = new_state], None, NoExc)

\* transition_to that does not record the transient BOOKING_APPOINTMENT: the
\* machine stays in CONFIRMING_APPOINTMENT while create_event is awaited
transition_to_no_transient(h, m, new_state) ==
    IF Attr(h, m, "state").t # "enum" \/ new_state.t # "enum"
    THEN Res(h, None, "AttributeError")
    ELSE IF new_state = Enum("BOOKING_APPOINTMENT") THEN Res(h, None, NoExc)
    ELSE Res([h EXCEPT ![m].d.state = new_state], None, NoExc)

transition_to(h, m, new_state) ==
    \* the print reads self.state.name and new_state.name first
    IF Attr(h, m, "state").t # "enum" \/ new_state.t # "enum"
    THEN Res(h, None, "AttributeError")
    ELSE Res([h EXCEPT ![m].d.state = new_state], None, NoExc)

get_state(h, m) == Attr(h, m, "state")

set_appointment_data(h, m, key, value) ==
    LET a == Attr(h, m, "appointment_data").v
    IN Res([h EXCEPT ![a].d = Put(@, key, value)], None, NoExc)

get_appointment_data(h, m, key) ==
    LET d == h[Attr(h, m, "appointment_data").v].d
    IN IF key \in DOMAIN d THEN d[key] ELSE None

\* clear_appointment_data that forgets selected_slot
clear_appointment_data_keep_slot(h, m) ==
    LET n == Len(h)
        h1 == h \o << Obj("dict", << >>), Obj("list", << >>) >>
    IN Res([h1 EXCEPT ![m].d.appointment_data = Ref(n + 1),
                      ![m].d.available_slots = Ref(n + 2)], None, NoExc)

\* clear_appointment_data that also drops the suspended flows
clear_appointment_data_all(h, m) ==
    LET n == Len(h)
        h1 == h \o << Obj("dict", << >>), Obj("list", << >>), Obj("list", << >>) >>
    IN Res([h1 EXCEPT ![m].d.appointment_data = Ref(n + 1),
                      ![m].d.available_slots = Ref(n + 2),
                      ![m].d.selected_slot = None,
                      ![m].d.context_stack = Ref(n + 3)], None, NoExc)

clear_appointment_data(h, m) ==
    LET n == Len(h)
        h1 == h \o << Obj("dict", << >>), Obj("list", << >>) >>
    IN Res([h1 EXCEPT ![m].d.appointment_data = Ref(n + 1),
                      ![m].d.available_slots = Ref(n + 2),
                      ![m].d.selected_slot = None], None, NoExc)

set_available_slots(h, m, slots) ==
    Res([h EXCEPT ![m].d.available_slots = slots], None, NoExc)

get_available_slots(h, m) == Attr(h, m, "available_slots")

\* set_selected_slot that stores the first slot on offer, whatever it is given
set_selected_slot_first(h, m, slot) ==
    LET offered == h[Attr(h, m, "available_slots").v].d
    IN Res([h EXCEPT ![m].d.selected_slot =
                        IF offered = << >> THEN None ELSE offered[1]],
           None, NoExc)

set_selected_slot(h, m, slot) ==
    Res([h EXCEPT ![m].d.selected_slot = slot], None, NoExc)

get_selected_slot(h, m) == Attr(h, m, "selected_slot")

RequiredFields == {"date", "time", "patient_name", "patient_email"}

\* is_appointment_complete whose list of required fields misses patient_email
is_appointment_complete_three(h, m) ==
    {"date", "time", "patient_name"}
        \subseteq DOMAIN h[Attr(h, m, "appointment_data").v].d

is_appointment_complete(h, m) ==
    RequiredFields \subseteq DOMAIN h[Attr(h, m, "appointment_data").v].d

\* save_context with appointment_data stored without .copy()
save_context_shared(h, m, now) ==
    LET o == h[m].d
        n == Len(h)
        h1 == h \o << Obj("list", h[o.available_slots.v].d),
                      Obj("list", h[o.user_appointments.v].d),
                      Obj("dict",
                          [state |-> o.state,
                           appointment_data |-> o.appointment_data,
                           available_slots |-> Ref(n + 1),
                           selected_slot |-> o.selected_slot,
                           user_appointments |-> Ref(n + 2),
                           timestamp |-> Str(now)]) >>
    IN Res([h1 EXCEPT ![o.context_stack.v].d = Append(@, Ref(n + 3))], None, NoExc)

save_context(h, m, now) ==
    LET o == h[m].d
        n == Len(h)
        h1 == h \o << Obj("dict", h[o.appointment_data.v].d),
                      Obj("list", h[o.available_slots.v].d),
                      Obj("list", h[o.user_appointments.v].d),
                      Obj("dict",
                          [state |-> o.state,
                           appointment_data |-> Ref(n + 1),
                           available_slots |-> Ref(n + 2),
                           selected_slot |-> o.selected_slot,
                           user_appointments |-> Ref(n + 3),
                           timestamp |-> Str(now)]) >>
    IN Res([h1 EXCEPT ![o.context_stack.v].d = Append(@, Ref(n + 4))], None, NoExc)

\* restore_context that takes the oldest snapshot: context_stack.pop(0)
restore_context_fifo(h, m) ==
    LET cs == Attr(h, m, "context_stack").v
        stack == h[cs].d
    IN IF stack = << >> THEN Res(h, False, NoExc)
       ELSE
         LET ctx == h[stack[1].v].d
             h1 == [h EXCEPT ![cs].d = SubSeq(@, 2, Len(@))]
             h2 == [h1 EXCEPT ![m].d =
                      [a \in DOMAIN @ |-> IF a \in DOMAIN ctx THEN ctx[a] ELSE @[a]]]
         IN Res(h2, True, NoExc)

\* restore_context that resets the working fields before it looks at the stack
restore_context_reset(h, m) ==
    LET cs == Attr(h, m, "context_stack").v
        stack == h[cs].d
    IN IF stack = << >>
       THEN Res([h EXCEPT ![m].d.state = Enum("IDLE"),
                          ![m].d.selected_slot = None], False, NoExc)
       ELSE
         LET ctx == h[stack[Len(stack)].v].d
             h1 == [h EXCEPT ![cs].d = SubSeq(@, 1, Len(@) - 1)]
             h2 == [h1 EXCEPT ![m].d =
                      [a \in DOMAIN @ |-> IF a \in DOMAIN ctx THEN ctx[a] ELSE @[a]]]
         IN Res(h2, True, NoExc)

ContextFields ==
    << "state", "appointment_data", "available_slots", "selected_slot",
       "user_appointments" >>

restore_context(h, m) ==
    LET cs == Attr(h, m, "context_stack").v
        stack == h[cs].d
    IN IF stack = << >> THEN Res(h, False, NoExc)
       ELSE
         LET ctx == h[stack[Len(stack)].v].d
             h1 == [h EXCEPT ![cs].d = SubSeq(@, 1, Len(@) - 1)]
             \* the fields are assigned in order; a missing key stops there
             missing == { i \in 1..Len(ContextFields) :
                             ContextFields[i] \notin DOMAIN ctx }
             upto == IF missing = {} THEN Len(ContextFields)
                     ELSE (CHOOSE i \in missing : \A j \in missing : i <= j) - 1
             done == { ContextFields[i] : i \in 1..upto }
             h2 == [h1 EXCEPT ![m].d =
                      [a \in DOMAIN @ |-> IF a \in done THEN ctx[a] ELSE @[a]]]
         IN IF missing # {} THEN Res(h2, None, "KeyError")
            ELSE IF Attr(h2, m, "state").t # "enum"
                 THEN Res(h2, None, "AttributeError")  \* logger reads state.name
                 ELSE Res(h2, True, NoExc)

has_saved_context(h, m) == Len(h[Attr(h, m, "context_stack").v].d) > 0

(***************************************************************************)
(* What a caller observes of a machine.                                    *)
(***************************************************************************)
Depth(h, m) == Len(h[Attr(h, m, "context_stack").v].d)

Working(h, m) ==
    [state |-> Attr(h, m, "state"),
     appointment_data |-> Deep(h, Attr(h, m, "appointment_data")),
     available_slots |-> Deep(h, Attr(h, m, "available_slots")),
     selected_slot |-> Deep(h, Attr(h, m, "selected_slot"))]

(***************************************************************************)
(* SpecSM: one machine driven through its public operations.               *)
(***************************************************************************)
SMStates == { "COLLECTING_DATE", "OFF_TOPIC" }
SMKeys == { "time" }
SMValues == { Str("14:00"), Str("15:00") }
SMSlot(hhmm) ==
    Dict([start |-> Str(hhmm), end |-> Str(hhmm), available |-> True])
SMSlotLists == { List(<< >>), List(<< SMSlot("09:00") >>) }
Now == "ts"

NoSnapshot == [depth |-> -1]

\* op, key: the operation and the session id it was called for; m: the
\* address of the machine it used or returned (0: none); ret, exc: what it
\* returned and what it raised; info: further facts about the call
Obs(op, key, m, ret, exc, info) ==
    [op |-> op, key |-> key, m |-> m, ret |-> ret, exc |-> exc, info |-> info]

NoInfo == [none |-> TRUE]

AllDiffer(w1, w2) ==
    /\ w1.state # w2.state
    /\ w1.appointment_data # w2.appointment_data
    /\ w1.available_slots # w2.available_slots
    /\ w1.selected_slot # w2.selected_slot

SMInit ==
    LET r == ConversationStateMachine(<< >>) IN
    /\ heap = Compact(r.h, << r.ret.v >>)
    /\ sm = 1
    /\ saved = << >>
    /\ ops = 0
    /\ held = << >>
    /\ sessions = << >>
    /\ db = << >>
    /\ tasks = << >>
    /\ persisted = << >>
    /\ last = Obs("init", "", 1, None, NoExc, NoInfo)

\* what the caller can still reach is the machine and what it holds (hd);
\* the machine stays the first root, so it keeps address 1
SMCommit(h, hd) ==
    \E ks \in { SetToSeq(DOMAIN hd) } :
    \E ord \in { Order(h, << sm >> \o [i \in 1..Len(ks) |-> hd[ks[i]]]) } :
    \E map \in { Index(ord) } :
        /\ heap' = CompactBy(h, ord, map)
        /\ held' = [n \in DOMAIN hd |-> map[hd[n]]]

SMStep(op, r) ==
    /\ ops < MaxOps
    /\ ops' = ops + 1
    /\ SMCommit(r.h, held)
    /\ sm' = sm
    /\ last' = Obs(op, "", sm, r.ret, r.exc, NoInfo)
    /\ UNCHANGED <<sessions, db, tasks, persisted>>

\* info: the state the machine was in and the argument of the call
SM_transition_to ==
    \E s \in SMStates : \E r \in { transition_to(heap, sm, Enum(s)) } :
        /\ ops < MaxOps
        /\ ops' = ops + 1
        /\ SMCommit(r.h, held)
        /\ last' = Obs("transition_to", "", sm, r.ret, r.exc,
                       [old_state |-> get_state(heap, sm), new_state |-> Enum(s)])
        /\ UNCHANGED <<sm, saved, sessions, db, tasks, persisted>>

SM_set_appointment_data ==
    \E k \in SMKeys, v \in SMValues :
        /\ SMStep("set_appointment_data", set_appointment_data(heap, sm, k, v))
        /\ UNCHANGED saved

\* info.cleared: all three fields held something when the call was made
SM_clear_appointment_data ==
    \E r \in { clear_appointment_data(heap, sm) } :
        /\ ops < MaxOps
        /\ ops' = ops + 1
        /\ SMCommit(r.h, held)
        /\ last' = Obs("clear_appointment_data", "", sm, r.ret, r.exc,
                       [cleared |->
                           /\ Working(heap, sm).appointment_data # Dict(<< >>)
                           /\ Working(heap, sm).available_slots # List(<< >>)
                           /\ Working(heap, sm).selected_slot # None])
        /\ UNCHANGED <<sm, saved, sessions, db, tasks, persisted>>

SM_set_available_slots ==
    \E tr \in SMSlotLists :
        LET b == Build(heap, tr) IN
        /\ SMStep("set_available_slots", set_available_slots(b.h, sm, b.ret))
        /\ UNCHANGED saved

SM_set_selected_slot ==
    LET slots == heap[get_available_slots(heap, sm).v].d IN
    \E slot \in {None} \cup Range(slots) :
        /\ SMStep("set_selected_slot", set_selected_slot(heap, sm, slot))
        /\ UNCHANGED saved

SM_save_context ==
    /\ SMStep("save_context", save_context(heap, sm, Now))
    /\ saved' = Append(saved, [depth |-> Depth(heap, sm),
                               fields |-> Working(heap, sm)])

SM_restore_context ==
    LET r == restore_context(heap, sm) IN
    /\ ops < MaxOps
    /\ ops' = ops + 1
    /\ SMCommit(r.h, held)
    /\ sm' = sm
    /\ last' = Obs("restore_context", "", sm, r.ret, r.exc,
                   [expect |-> IF saved = << >> THEN NoSnapshot
                               ELSE saved[Len(saved)],
                    undone |-> /\ saved # << >>
                               /\ AllDiffer(Working(heap, sm),
                                            saved[Len(saved)].fields)])
    /\ UNCHANGED <<sessions, db, tasks, persisted>>
    /\ saved' = IF saved = << >> THEN saved ELSE SubSeq(saved, 1, Len(saved) - 1)

SMNext ==
    \/ SM_transition_to
    \/ SM_set_appointment_data
    \/ SM_clear_appointment_data
    \/ SM_set_available_slots
    \/ SM_set_selected_slot
    \/ SM_save_context
    \/ SM_restore_context

SpecSM == SMInit /\ [][SMNext]_vars

(***************************************************************************)
(* C1  Suspend/resume: a restore_context() that follows a save_context()   *)
(* returns True and leaves state, appointment_data, available_slots and    *)
(* selected_slot equal to what they were when save_context() was called,   *)
(* with context_stack back at the depth it had then, whatever              *)
(* transition_to, set_appointment_data, set_available_slots,               *)
(* set_selected_slot and clear_appointment_data did in between.            *)
(***************************************************************************)
C1_SuspendResume ==
    (last.op = "restore_context" /\ last.info.expect # NoSnapshot) =>
        /\ last.ret = True
        /\ Working(heap, sm) = last.info.expect.fields
        /\ Depth(heap, sm) = last.info.expect.depth

\* a restore that had something to undo: every working field had changed
C1_Witness ==
    /\ last.op = "restore_context"
    /\ last.info.expect # NoSnapshot
    /\ last.ret = True
    /\ last.info.undone

(***************************************************************************)
(* Database (storage/database.py), sessions table.  A row holds the state  *)
(* name and the JSON texts of appointment_data and context_stack; a JSON   *)
(* text is modelled by the tree of values it parses to.  healthy = FALSE   *)
(* is an sqlite3 error inside the method.                                  *)
(***************************************************************************)
\* json.dumps(..., cls=DateTimeEncoder) raises TypeError on anything that is
\* neither a JSON type nor a date: an Enum member, a machine
RECURSIVE Serializable(_)
Serializable(tr) ==
    CASE tr.t \in {"str", "none", "bool", "date"} -> TRUE
      [] tr.t \in {"dict", "list"} -> \A k \in DOMAIN tr.v : Serializable(tr.v[k])
      [] OTHER -> FALSE

\* DateTimeEncoder.default: a date becomes the string obj.isoformat()
RECURSIVE DateTimeEncoder(_)
DateTimeEncoder(tr) ==
    CASE tr.t = "date" -> Str(tr.v)
      [] tr.t \in {"dict", "list"} ->
            [t |-> tr.t, v |-> [k \in DOMAIN tr.v |-> DateTimeEncoder(tr.v[k])]]
      [] OTHER -> tr

NoRow == [found |-> FALSE]
Row(state, appointment_data, context_stack) ==
    [found |-> TRUE, state |-> state, appointment_data |-> appointment_data,
     context_stack |-> context_stack]

\* save_session as a plain INSERT OR IGNORE: an existing row is left as it is
Database_save_session_insert_only(d, session_id, state, appointment_data, context_stack, healthy) ==
    IF healthy /\ Serializable(appointment_data) /\ Serializable(context_stack)
    THEN [db |-> IF session_id \in DOMAIN d THEN d
                 ELSE Put(d, session_id,
                          Row(state, DateTimeEncoder(appointment_data),
                              DateTimeEncoder(context_stack))),
          ret |-> True, exc |-> NoExc]
    ELSE [db |-> d, ret |-> False, exc |-> NoExc]

Database_save_session(d, session_id, state, appointment_data, context_stack, healthy) ==
    IF healthy /\ Serializable(appointment_data) /\ Serializable(context_stack)
    THEN [db |-> Put(d, session_id,
                     Row(state, DateTimeEncoder(appointment_data),
                         DateTimeEncoder(context_stack))),
          ret |-> True, exc |-> NoExc]
    ELSE [db |-> d, ret |-> False, exc |-> NoExc]   \* logged, swallowed

Database_get_session(d, session_id, healthy) ==
    IF healthy /\ session_id \in DOMAIN d
    THEN [ret |-> d[session_id], exc |-> NoExc]
    ELSE [ret |-> NoRow, exc |-> NoExc]             \* None

Database_delete_session(d, session_id, healthy) ==
    IF healthy
    THEN [db |-> [k \in (DOMAIN d) \ {session_id} |-> d[k]],
          ret |-> True, exc |-> NoExc]
    ELSE [db |-> d, ret |-> False, exc |-> NoExc]

(***************************************************************************)
(* ConversationManager (agents/conversation.py), enable_persistence = True *)
(***************************************************************************)
MRes(h, sess, ret, exc) == [h |-> h, sessions |-> sess, ret |-> ret, exc |-> exc]

\* get_or_create_session that hands every new session id a machine that is
\* already cached for another id
get_or_create_session_shared(h, sess, d, session_id, healthy) ==
    IF session_id \in DOMAIN sess
    THEN MRes(h, sess, Ref(sess[session_id]), NoExc)
    ELSE IF DOMAIN sess # {}
    THEN LET other == CHOOSE k \in DOMAIN sess : TRUE
         IN MRes(h, Put(sess, session_id, sess[other]), Ref(sess[other]), NoExc)
    ELSE LET fresh == ConversationStateMachine(h)
         IN MRes(fresh.h, Put(sess, session_id, fresh.ret.v), fresh.ret, NoExc)

\* get_or_create_session that never looks in storage
get_or_create_session_fresh(h, sess, d, session_id, healthy) ==
    IF session_id \in DOMAIN sess
    THEN MRes(h, sess, Ref(sess[session_id]), NoExc)
    ELSE LET fresh == ConversationStateMachine(h)
         IN MRes(fresh.h, Put(sess, session_id, fresh.ret.v), fresh.ret, NoExc)

\* get_or_create_session that does not put the machine it makes in the cache
get_or_create_session_uncached(h, sess, d, session_id, healthy) ==
    IF session_id \in DOMAIN sess
    THEN MRes(h, sess, Ref(sess[session_id]), NoExc)
    ELSE
      LET g == Database_get_session(d, session_id, healthy)
          session_data == g.ret
          fresh == ConversationStateMachine(h)
      IN IF g.exc = NoExc /\ session_data.found
            /\ session_data.state \in ConversationState
         THEN LET m == fresh.ret.v
                  b1 == Build(fresh.h, session_data.appointment_data)
                  b2 == Build(b1.h, session_data.context_stack)
                  h2 == [b2.h EXCEPT
                           ![m].d.state = Enum(session_data.state),
                           ![m].d.appointment_data = b1.ret,
                           ![m].d.context_stack = b2.ret]
              IN MRes(h2, sess, Ref(m), NoExc)
         ELSE MRes(fresh.h, sess, fresh.ret, NoExc)

\* get_or_create_session without the try/except around the rehydration
get_or_create_session_unguarded(h, sess, d, session_id, healthy) ==
    IF session_id \in DOMAIN sess
    THEN MRes(h, sess, Ref(sess[session_id]), NoExc)
    ELSE
      LET g == Database_get_session(d, session_id, healthy)
          session_data == g.ret
          fresh == ConversationStateMachine(h)
      IN IF g.exc = NoExc /\ session_data.found
         THEN IF session_data.state \notin ConversationState
              THEN MRes(h, sess, None, "KeyError")
              ELSE
              LET m == fresh.ret.v
                  b1 == Build(fresh.h, session_data.appointment_data)
                  b2 == Build(b1.h, session_data.context_stack)
                  h2 == [b2.h EXCEPT
                           ![m].d.state = Enum(session_data.state),
                           ![m].d.appointment_data = b1.ret,
                           ![m].d.context_stack = b2.ret]
              IN MRes(h2, Put(sess, session_id, m), Ref(m), NoExc)
         ELSE MRes(fresh.h, Put(sess, session_id, fresh.ret.v), fresh.ret, NoExc)

\* get_or_create_session with a storage read whose error is not caught
get_or_create_session_read_raises(h, sess, d, session_id, healthy) ==
    IF session_id \in DOMAIN sess
    THEN MRes(h, sess, Ref(sess[session_id]), NoExc)
    ELSE IF ~healthy THEN MRes(h, sess, None, "sqlite3.Error")
    ELSE
      LET g == Database_get_session(d, session_id, healthy)
          session_data == g.ret
          fresh == ConversationStateMachine(h)
      IN IF g.exc = NoExc /\ session_data.found
            /\ session_data.state \in ConversationState
         THEN LET m == fresh.ret.v
                  b1 == Build(fresh.h, session_data.appointment_data)
                  b2 == Build(b1.h, session_data.context_stack)
                  h2 == [b2.h EXCEPT
                           ![m].d.state = Enum(session_data.state),
                           ![m].d.appointment_data = b1.ret,
                           ![m].d.context_stack = b2.ret]
              IN MRes(h2, Put(sess, session_id, m), Ref(m), NoExc)
         ELSE MRes(fresh.h, Put(sess, session_id, fresh.ret.v), fresh.ret, NoExc)

\* get_or_create_session that assigns the stored state name as it is, without
\* looking it up in ConversationState
get_or_create_session_raw_state(h, sess, d, session_id, healthy) ==
    IF session_id \in DOMAIN sess
    THEN MRes(h, sess, Ref(sess[session_id]), NoExc)
    ELSE
      LET g == Database_get_session(d, session_id, healthy)
          session_data == g.ret
          fresh == ConversationStateMachine(h)
      IN IF g.exc = NoExc /\ session_data.found
         THEN LET m == fresh.ret.v
                  b1 == Build(fresh.h, session_data.appointment_data)
                  b2 == Build(b1.h, session_data.context_stack)
                  h2 == [b2.h EXCEPT
                           ![m].d.state = Str(session_data.state),
                           ![m].d.appointment_data = b1.ret,
                           ![m].d.context_stack = b2.ret]
              IN MRes(h2, Put(sess, session_id, m), Ref(m), NoExc)
         ELSE MRes(fresh.h, Put(sess, session_id, fresh.ret.v), fresh.ret, NoExc)

\* get_or_create_session that restores the state and the context stack of the
\* stored row but not its appointment_data
get_or_create_session_state_only(h, sess, d, session_id, healthy) ==
    IF session_id \in DOMAIN sess
    THEN MRes(h, sess, Ref(sess[session_id]), NoExc)
    ELSE
      LET g == Database_get_session(d, session_id, healthy)
          session_data == g.ret
          fresh == ConversationStateMachine(h)
      IN IF g.exc = NoExc /\ session_data.found
            /\ session_data.state \in ConversationState
         THEN LET m == fresh.ret.v
                  b2 == Build(fresh.h, session_data.context_stack)
                  h2 == [b2.h EXCEPT
                           ![m].d.state = Enum(session_data.state),
                           ![m].d.context_stack = b2.ret]
              IN MRes(h2, Put(sess, session_id, m), Ref(m), NoExc)
         ELSE MRes(fresh.h, Put(sess, session_id, fresh.ret.v), fresh.ret, NoExc)

get_or_create_session(h, sess, d, session_id, healthy) ==
    IF session_id \in DOMAIN sess
    THEN MRes(h, sess, Ref(sess[session_id]), NoExc)
    ELSE
      LET g == Database_get_session(d, session_id, healthy)
          session_data == g.ret
          fresh == ConversationStateMachine(h)
      IN IF g.exc = NoExc /\ session_data.found
            /\ session_data.state \in ConversationState  \* else KeyError, caught
         THEN LET m == fresh.ret.v
                  b1 == Build(fresh.h, session_data.appointment_data)
                  b2 == Build(b1.h, session_data.context_stack)
                  h2 == [b2.h EXCEPT
                           ![m].d.state = Enum(session_data.state),
                           ![m].d.appointment_data = b1.ret,
                           ![m].d.context_stack = b2.ret]
              IN MRes(h2, Put(sess, session_id, m), Ref(m), NoExc)
         ELSE MRes(fresh.h, Put(sess, session_id, fresh.ret.v), fresh.ret, NoExc)

\* save_session with a storage write whose error is not caught
save_session_propagating(h, d, session_id, m, healthy) ==
    IF Attr(h, m, "state").t # "enum"
    THEN [db |-> d, exc |-> "AttributeError"]
    ELSE IF ~healthy THEN [db |-> d, exc |-> "sqlite3.Error"]
    ELSE LET w == Database_save_session(d, session_id, Attr(h, m, "state").v,
                      Deep(h, Attr(h, m, "appointment_data")),
                      Deep(h, Attr(h, m, "context_stack")), healthy)
         IN [db |-> w.db, exc |-> w.exc]

\* returns the table after the call; the call itself returns None
save_session(h, d, session_id, m, healthy) ==
    IF Attr(h, m, "state").t # "enum"
    THEN [db |-> d, exc |-> NoExc]        \* state.name: AttributeError, caught
    ELSE LET w == Database_save_session(d, session_id, Attr(h, m, "state").v,
                      Deep(h, Attr(h, m, "appointment_data")),
                      Deep(h, Attr(h, m, "context_stack")), healthy)
         IN [db |-> w.db, exc |-> w.exc]

\* clear_session that only drops the cache entry
clear_session_cache_only(sess, d, session_id, healthy) ==
    [sessions |-> [k \in (DOMAIN sess) \ {session_id} |-> sess[k]],
     db |-> d, exc |-> NoExc]

clear_session(sess, d, session_id, healthy) ==
    LET w == Database_delete_session(d, session_id, healthy)
    IN [sessions |-> [k \in (DOMAIN sess) \ {session_id} |-> sess[k]],
        db |-> w.db, exc |-> w.exc]

(***************************************************************************)
(* The dialogue driver (agents/message_handlers.py).  A message is one of  *)
(* a few concrete texts; the extraction functions are tabulated on them.   *)
(***************************************************************************)
Today == "2025-11-06"
Tomorrow == "2025-11-07"
Earlier == "2025-11-01"

Messages ==
    { "Ola", "agendar consulta", "amanha", "dia 1", "2", "9",
      "Ana Silva ana@example.com", "Ana Silva", "sim", "nao" }

HasBookingWord(msg) == msg = "agendar consulta"

extract_date_from_message(msg) ==
    CASE msg = "hoje" -> Date(Today)
      [] msg = "amanha" -> Date(Tomorrow)
      [] msg = "dia 1" -> Date(Earlier)
      [] OTHER -> None

IsPast(d) == d.v = Earlier            \* appointment_date < date.today()

\* int(message_text.strip()); 0 stands for ValueError
IntOf(msg) == CASE msg = "2" -> 2 [] msg = "9" -> 9 [] OTHER -> 0

extract_patient_info(msg) ==
    CASE msg = "Ana Silva ana@example.com" ->
            [name |-> Str("Ana Silva"), email |-> Str("ana@example.com")]
      [] OTHER -> [name |-> None, email |-> None]

IsYes(msg) == msg = "sim"
IsNo(msg) == msg = "nao"

SlotTimes == << "09:00", "10:00", "14:00", "15:00" >>

\* get_available_slots that answers with nine default slots, more than the
\* reply lists
DefaultSlots_nine(appointment_date) ==
    LET ends == << "09:30", "10:30", "14:30", "15:30", "16:30", "17:30",
                   "18:30", "19:30", "20:30" >> IN
    List([i \in 1..9 |->
            Dict([start |-> Str(appointment_date.v \o "T"
                                  \o SlotTimes[((i - 1) % 4) + 1] \o ":00"),
                  end |-> Str(appointment_date.v \o "T" \o ends[i] \o ":00"),
                  available |-> True])])

\* get_available_slots: the service call is made with end_date = start_date,
\* which _get_available_slots_sync rejects with ValueError, so the handler
\* answers with its four default slots
DefaultSlots(appointment_date) ==
    LET ends == << "09:30", "10:30", "14:30", "15:30" >> IN
    List([i \in 1..Len(SlotTimes) |->
            Dict([start |-> Str(appointment_date.v \o "T" \o SlotTimes[i] \o ":00"),
                  end |-> Str(appointment_date.v \o "T" \o ends[i] \o ":00"),
                  available |-> True])])

\* slot['start'].split('T')[1][:5]
StartTime(start) ==
    CHOOSE hhmm \in Range(SlotTimes) :
        \E d \in {Today, Tomorrow, Earlier} : start = d \o "T" \o hhmm \o ":00"

\* results of a driver step: returned a reply, raised, or suspended at an await
Return(h, reply) ==
    [kind |-> "return", h |-> h, ret |-> Str(reply), exc |-> NoExc, loc |-> NoInfo]
Raise(h, exc) ==
    [kind |-> "raise", h |-> h, ret |-> None, exc |-> exc, loc |-> NoInfo]
Await(h, what, loc) ==
    [kind |-> what, h |-> h, ret |-> None, exc |-> NoExc, loc |-> loc]

handle_message(h, m, msg) ==
    LET current_state == get_state(h, m) IN
    CASE current_state = Enum("IDLE") ->
            Return(transition_to(h, m, Enum("GREETING")).h, "greeting")
      [] current_state = Enum("GREETING") ->
            IF HasBookingWord(msg)
            THEN LET h1 == clear_appointment_data(h, m).h
                     h2 == transition_to(h1, m, Enum("COLLECTING_DATE")).h
                 IN Return(h2, "ask_date")
            ELSE Return(h, "offer_booking")
      [] current_state = Enum("COLLECTING_DATE") ->
            LET appointment_date == extract_date_from_message(msg) IN
            IF appointment_date # None
            THEN IF IsPast(appointment_date)
                 THEN Return(h, "past_date")
                 ELSE Await(set_appointment_data(h, m, "date", appointment_date).h,
                            "await_slots",
                            [appointment_date |-> appointment_date])
            ELSE Return(h, "retry_date")
      [] current_state = Enum("SHOWING_AVAILABLE_SLOTS") ->
            LET slot_number == IntOf(msg)
                available_slots == h[get_available_slots(h, m).v].d
            IN IF slot_number = 0 THEN Return(h, "digits_only")
               ELSE IF 1 <= slot_number /\ slot_number <= Len(available_slots)
               THEN LET selected_slot == available_slots[slot_number]
                        h1 == set_selected_slot(h, m, selected_slot).h
                        start_time ==
                            Str(StartTime(h1[selected_slot.v].d["start"].v))
                        h2 == set_appointment_data(h1, m, "time", start_time).h
                        h3 == transition_to(h2, m,
                                  Enum("COLLECTING_PATIENT_INFO")).h
                    IN Return(h3, "slot_selected")
               ELSE Return(h, "choose_in_range")
      [] current_state = Enum("COLLECTING_PATIENT_INFO") ->
            LET info == extract_patient_info(msg) IN
            IF info.name # None /\ info.email # None
            THEN LET h1 == set_appointment_data(h, m, "patient_name", info.name).h
                     h2 == set_appointment_data(h1, m, "patient_email",
                                                info.email).h
                     appointment_date == get_appointment_data(h2, m, "date")
                     h3 == transition_to(h2, m,
                               Enum("CONFIRMING_APPOINTMENT")).h
                 IN \* appointment_date.strftime(...) needs a date object
                    IF appointment_date.t = "date"
                    THEN Return(h3, "confirm_prompt")
                    ELSE Raise(h3, "AttributeError")
            ELSE Return(h, "need_name_email")
      [] current_state = Enum("CONFIRMING_APPOINTMENT") ->
            IF IsYes(msg)
            THEN LET h1 == transition_to(h, m, Enum("BOOKING_APPOINTMENT")).h
                 IN Await(h1, "await_create",
                          [appointment_date |->
                               get_appointment_data(h1, m, "date")])
            ELSE IF IsNo(msg)
            THEN LET h1 == transition_to(h, m, Enum("IDLE")).h
                     h2 == clear_appointment_data(h1, m).h
                 IN Return(h2, "cancelled")
            ELSE Return(h, "yes_or_no")
      [] OTHER -> Return(h, "fallback")

\* the resumption after get_available_slots that goes straight on to the
\* patient's data, past the list of slots
handle_message_slots_skipping(h, m, loc) ==
    LET b == Build(h, DefaultSlots(loc.appointment_date))
        h1 == set_available_slots(b.h, m, b.ret).h
    IN IF Len(h1[b.ret.v].d) > 0
       THEN LET t == transition_to(h1, m, Enum("COLLECTING_PATIENT_INFO"))
            IN IF t.exc # NoExc THEN Raise(t.h, t.exc)
               ELSE Return(t.h, "slots_offered")
       ELSE Return(h1, "no_slots")

\* COLLECTING_DATE after "slots = await get_available_slots(...)"
handle_message_slots(h, m, loc) ==
    LET b == Build(h, DefaultSlots(loc.appointment_date))
        h1 == set_available_slots(b.h, m, b.ret).h
    IN IF Len(h1[b.ret.v].d) > 0
       THEN LET t == transition_to(h1, m, Enum("SHOWING_AVAILABLE_SLOTS"))
            IN IF t.exc # NoExc THEN Raise(t.h, t.exc)
               ELSE Return(t.h, "slots_offered")
       ELSE Return(h1, "no_slots")

\* CONFIRMING_APPOINTMENT after "result = await calendar_service.create_event"
\* created = FALSE: the call raised
handle_message_created(h, m, loc, created) ==
    LET t1 == transition_to(h, m, Enum("IDLE")) IN
    IF created /\ t1.exc = NoExc
    THEN LET h2 == clear_appointment_data(t1.h, m).h IN
         \* the reply formats appointment_date.strftime(...) inside the try
         IF loc.appointment_date.t = "date"
         THEN Return(h2, "booked")
         ELSE LET t2 == transition_to(h2, m, Enum("IDLE")) IN
              IF t2.exc # NoExc THEN Raise(t2.h, t2.exc)
              ELSE Return(t2.h, "booking_error")
    ELSE \* except Exception: transition_to(IDLE) again, error reply
         LET t2 == transition_to(t1.h, m, Enum("IDLE")) IN
         IF t2.exc # NoExc THEN Raise(t2.h, t2.exc)
         ELSE Return(t2.h, "booking_error")

(***************************************************************************)
(* Spec: a ConversationManager process, its callers and its storage.       *)
(* A handle_incoming_message call runs from await to await; other calls    *)
(* run between its steps.                                                  *)
(***************************************************************************)
Keys == { "S1" }

\* rows written to the table by other clients of Database.save_session
DirectRows ==
    { Row("GREETING", Dict([date |-> Str("2025-10-30")]), List(<< >>)),
      Row("NOT_A_REAL_STATE", Dict(<< >>), List(<< >>)) }

Without(f, k) == [x \in (DOMAIN f) \ {k} |-> f[x]]

RemoveAt(s, i) == SubSeq(s, 1, i - 1) \o SubSeq(s, i + 1, Len(s))

\* what a machine held, as plain values
Record(h, m) ==
    [state |-> Attr(h, m, "state"),
     appointment_data |-> Deep(h, Attr(h, m, "appointment_data")),
     available_slots |-> Deep(h, Attr(h, m, "available_slots")),
     selected_slot |-> Deep(h, Attr(h, m, "selected_slot")),
     context_stack |-> Deep(h, Attr(h, m, "context_stack"))]

StoredRow(d, k) == IF k \in DOMAIN d THEN d[k] ELSE NoRow

Init ==
    /\ heap = << >>
    /\ sm = 0
    /\ saved = << >>
    /\ ops = 0
    /\ held = << >>
    /\ sessions = << >>
    /\ db = << >>
    /\ tasks = << >>
    /\ persisted = << >>
    /\ last = Obs("init", "", 0, None, NoExc, NoInfo)

\* the references the process and its caller hold: cached machines, the
\* machines of suspended calls, the machine the last call used or returned
Roots(sess, tks, lst) ==
    LET ks == SetToSeq(DOMAIN sess) IN
    [i \in 1..Len(ks) |-> sess[ks[i]]]
      \o [i \in 1..Len(tks) |-> tks[i].m]
      \o (IF lst.m = 0 THEN << >> ELSE << lst.m >>)

Commit(h, sess, tks, lst) ==
    \E ord \in { Order(h, Roots(sess, tks, lst)) } : \E map \in { Index(ord) } :
       /\ heap' = CompactBy(h, ord, map)
       /\ sessions' = [k \in DOMAIN sess |-> map[sess[k]]]
       /\ tasks' = [i \in 1..Len(tks) |-> [tks[i] EXCEPT !.m = map[@]]]
       /\ last' = [lst EXCEPT !.m = IF @ = 0 THEN 0 ELSE map[@]]
       /\ UNCHANGED <<sm, saved, ops, held>>

\* the operation that directly preceded, if it was for the same session id:
\* its name, the health of its storage access, and whether it took effect
\* (clear_session: a cached machine and a row were removed;
\* handle_incoming_message: it returned and its machine was the cached one)
Follows(k) ==
    IF last.key # k THEN [op |-> "", healthy |-> TRUE, effect |-> FALSE]
    ELSE [op |-> last.op,
          healthy |-> IF last.op \in {"save_session", "clear_session"}
                      THEN last.info.healthy
                      ELSE IF last.op = "handle_incoming_message"
                              /\ last.info.phase = "returned"
                      THEN last.info.healthy ELSE TRUE,
          effect |-> IF last.op = "clear_session"
                     THEN last.info.evicted /\ last.info.deleted
                     ELSE IF last.op = "handle_incoming_message"
                     THEN last.info.phase = "returned" /\ last.info.cached
                     ELSE TRUE]

\* facts about the resolve step g of a call: cache hit, storage health of
\* the read, the row that was stored, the address the cached machine had,
\* whether the machine returned is that cached machine, what preceded
Resolved(k, healthy, g) ==
    [hit |-> k \in DOMAIN sessions,
     healthy |-> healthy,
     row |-> IF k \in DOMAIN sessions THEN NoRow ELSE StoredRow(db, k),
     used |-> IF k \in DOMAIN sessions THEN sessions[k] ELSE 0,
     same |-> k \in DOMAIN sessions /\ g.ret = Ref(sessions[k]),
     follows |-> Follows(k)]

ReadHealth(k) == IF k \in DOMAIN sessions THEN {TRUE} ELSE BOOLEAN

InFlight(k) == \E i \in 1..Len(tasks) : tasks[i].key = k

GetOrCreateSession ==
    \E k \in Keys : \E healthy \in ReadHealth(k) :
    \E g \in { get_or_create_session(heap, sessions, db, k, healthy) } :
        /\ Commit(g.h, g.sessions, tasks,
                  Obs("get_or_create_session", k,
                      IF g.exc = NoExc THEN g.ret.v ELSE 0, None, g.exc,
                      [res |-> Resolved(k, healthy, g)]))
        /\ UNCHANGED <<db, persisted>>

\* the caller saves the machine it got for k
SaveSession ==
    \E k \in DOMAIN sessions : \E healthy \in BOOLEAN :
    \E w \in { save_session(heap, db, k, sessions[k], healthy) } :
        /\ db' = w.db
        /\ persisted' = IF healthy THEN Put(persisted, k, Record(heap, sessions[k]))
                        ELSE persisted
        /\ Commit(heap, sessions, tasks,
                  Obs("save_session", k, sessions[k], None, w.exc,
                      [healthy |-> healthy]))

\* the end of a handle_incoming_message call whose driver step ended with b
Finish(k, m, b, res, sess, tks, healthy) ==
    IF b.kind = "raise"
    THEN /\ Commit(b.h, sess, tks,
                   Obs("handle_incoming_message", k, m, None, b.exc,
                       [phase |-> "raised", res |-> res, from |-> "driver"]))
         /\ UNCHANGED <<db, persisted>>
    ELSE \E w \in { save_session(b.h, db, k, m, healthy) } :
         /\ db' = w.db
         /\ persisted' = IF healthy THEN Put(persisted, k, Record(b.h, m))
                         ELSE persisted
         /\ Commit(b.h, sess, tks,
                   IF w.exc # NoExc
                   THEN Obs("handle_incoming_message", k, m, None, w.exc,
                            [phase |-> "raised", res |-> res, from |-> "storage"])
                   ELSE Obs("handle_incoming_message", k, m, b.ret, NoExc,
                            [phase |-> "returned", res |-> res,
                             healthy |-> healthy,
                             cached |-> k \in DOMAIN sess /\ sess[k] = m]))

\* handle_incoming_message(k, msg) up to its first await, or to its end;
\* res.msg: the message text of the call
Begin(k, msg) ==
    \E rhealthy \in ReadHealth(k) :
    \E g \in { get_or_create_session(heap, sessions, db, k, rhealthy) } :
    \E res \in { [msg |-> msg] @@ Resolved(k, rhealthy, g) } :
      IF g.exc # NoExc
      THEN /\ Commit(g.h, g.sessions, tasks,
                     Obs("handle_incoming_message", k, 0, None, g.exc,
                         [phase |-> "raised", res |-> res, from |-> "storage"]))
           /\ UNCHANGED <<db, persisted>>
      ELSE
      \E b \in { handle_message(g.h, g.ret.v, msg) } :
        IF b.kind \in {"await_slots", "await_create"}
        THEN /\ Commit(b.h, g.sessions,
                       Append(tasks, [key |-> k, m |-> g.ret.v, pc |-> b.kind,
                                      loc |-> b.loc, res |-> res]),
                       Obs("handle_incoming_message", k, g.ret.v, None, NoExc,
                           [phase |-> "suspended", res |-> res]))
             /\ UNCHANGED <<db, persisted>>
        ELSE \E whealthy \in BOOLEAN :
                 Finish(k, g.ret.v, b, res, g.sessions, tasks, whealthy)

\* callers send one message at a time per session id
HandleIncomingMessage ==
    \E k \in Keys, msg \in Messages : ~InFlight(k) /\ Begin(k, msg)

ResumeSlots ==
    \E i \in 1..Len(tasks) : \E whealthy \in BOOLEAN :
    \E t \in { tasks[i] } :
        /\ t.pc = "await_slots"
        /\ \E b \in { handle_message_slots(heap, t.m, t.loc) } :
             Finish(t.key, t.m, b, t.res, sessions, RemoveAt(tasks, i), whealthy)

ResumeCreate ==
    \E i \in 1..Len(tasks) : \E created \in BOOLEAN, whealthy \in BOOLEAN :
    \E t \in { tasks[i] } :
        /\ t.pc = "await_create"
        /\ \E b \in { handle_message_created(heap, t.m, t.loc, created) } :
             Finish(t.key, t.m, b, t.res, sessions, RemoveAt(tasks, i), whealthy)

ClearSession ==
    \E k \in Keys : \E healthy \in BOOLEAN :
    \E c \in { clear_session(sessions, db, k, healthy) } :
        /\ db' = c.db
        /\ persisted' = IF healthy THEN Without(persisted, k) ELSE persisted
        /\ Commit(heap, c.sessions, tasks,
                  Obs("clear_session", k, 0, None, c.exc,
                      [healthy |-> healthy,
                       evicted |-> k \in DOMAIN sessions
                                   /\ get_state(heap, sessions[k]) # Enum("IDLE"),
                       deleted |-> k \in DOMAIN db]))

\* the process ends and a new one starts: nothing in memory survives
Restart ==
    /\ heap' = << >>
    /\ sessions' = << >>
    /\ tasks' = << >>
    /\ last' = Obs("restart", "", 0, None, NoExc, NoInfo)
    /\ UNCHANGED <<db, persisted, sm, saved, ops, held>>

\* another client writes a row with Database.save_session
DirectWrite ==
    \E k \in Keys, row \in DirectRows :
        /\ db' = Database_save_session(db, k, row.state, row.appointment_data,
                                       row.context_stack, TRUE).db
        /\ persisted' = Without(persisted, k)
        /\ Commit(heap, sessions, tasks,
                  Obs("Database.save_session", k, 0, None, NoExc, NoInfo))

Next ==
    \/ GetOrCreateSession
    \/ SaveSession
    \/ HandleIncomingMessage
    \/ ResumeSlots
    \/ ResumeCreate
    \/ ClearSession
    \/ Restart
    \/ DirectWrite

Spec == Init /\ [][Next]_vars

FreshRecord ==
    [state |-> Enum("IDLE"), appointment_data |-> Dict(<< >>),
     available_slots |-> List(<< >>), selected_slot |-> None,
     context_stack |-> List(<< >>)]

\* the last operation was a get_or_create_session that went to storage
Resolving == last.op = "get_or_create_session" /\ ~last.info.res.hit

\* the last operation was a handle_incoming_message call that returned
Returned ==
    last.op = "handle_incoming_message" /\ last.info.phase = "returned"

(***************************************************************************)
(* C2  Write-through: whenever handle_incoming_message(k, msg) returns a   *)
(* reply and storage is healthy, the row stored for k holds the state name *)
(* and the (JSON-encoded) appointment_data that the machine of the call    *)
(* has after the driver step.                                              *)
(***************************************************************************)
C2_WriteThrough ==
    (Returned /\ last.info.healthy) =>
        /\ last.key \in DOMAIN db
        /\ Enum(db[last.key].state) = get_state(heap, last.m)
        /\ db[last.key].appointment_data =
              DateTimeEncoder(Deep(heap, Attr(heap, last.m, "appointment_data")))

\* a slot was chosen by this call: the row holds the new state, the date as
\* text and the time
C2_Witness ==
    /\ Returned /\ last.info.healthy
    /\ get_state(heap, last.m) = Enum("COLLECTING_PATIENT_INFO")
    /\ get_appointment_data(heap, last.m, "date") = Date(Tomorrow)
    /\ db[last.key].appointment_data =
          Dict([date |-> Str(Tomorrow), time |-> Str("10:00")])

(***************************************************************************)
(* C3  Restore after restart: for a session driven by                      *)
(* handle_incoming_message and saved with save_session, a                  *)
(* get_or_create_session that misses the cache returns a machine whose     *)
(* state is the state of the machine that was saved.                       *)
(***************************************************************************)
C3_RestoreAfterRestart ==
    (Resolving /\ last.info.res.healthy /\ last.key \in DOMAIN persisted) =>
        get_state(heap, last.m) = persisted[last.key].state

C3_Witness ==
    /\ Resolving /\ last.info.res.healthy /\ last.key \in DOMAIN persisted
    /\ persisted[last.key].state = Enum("SHOWING_AVAILABLE_SLOTS")
    /\ get_state(heap, last.m) = Enum("SHOWING_AVAILABLE_SLOTS")

(***************************************************************************)
(* C4  Full-record persistence: the machine rehydrated on a cache miss has *)
(* the same available_slots and the same selected_slot as the machine that *)
(* was persisted, not only the same state.                                 *)
(***************************************************************************)
C4_FullRecord ==
    (Resolving /\ last.info.res.healthy /\ last.key \in DOMAIN persisted) =>
        /\ get_state(heap, last.m) = persisted[last.key].state
        /\ Deep(heap, get_available_slots(heap, last.m))
              = persisted[last.key].available_slots
        /\ Deep(heap, get_selected_slot(heap, last.m))
              = persisted[last.key].selected_slot

(***************************************************************************)
(* SpecCtx: a caller that drives a session up to the list of slots and     *)
(* also suspends and resumes the flow of the machine                       *)
(* get_or_create_session gave it (save_context, restore_context), as       *)
(* scripts/test_phase1.py does on a machine.                               *)
(***************************************************************************)
CallerSaveContext ==
    \E k \in DOMAIN sessions :
        /\ Depth(heap, sessions[k]) < MaxStack
        /\ \E r \in { save_context(heap, sessions[k], Now) } :
             Commit(r.h, sessions, tasks,
                    Obs("save_context", k, sessions[k], r.ret, r.exc, NoInfo))
        /\ UNCHANGED <<db, persisted>>

CallerRestoreContext ==
    \E k \in DOMAIN sessions :
        /\ has_saved_context(heap, sessions[k])
        /\ \E r \in { restore_context(heap, sessions[k]) } :
             Commit(r.h, sessions, tasks,
                    Obs("restore_context", k, sessions[k], r.ret, r.exc, NoInfo))
        /\ UNCHANGED <<db, persisted>>

\* the messages that take a new session to the list of slots
CtxMessages == { "Ola", "agendar consulta", "amanha" }

CtxHandleIncomingMessage ==
    \E k \in Keys, msg \in CtxMessages : ~InFlight(k) /\ Begin(k, msg)

CtxNext ==
    \/ GetOrCreateSession
    \/ SaveSession
    \/ CtxHandleIncomingMessage
    \/ ResumeSlots
    \/ Restart
    \/ CallerSaveContext
    \/ CallerRestoreContext

SpecCtx == Init /\ [][CtxNext]_vars

(***************************************************************************)
(* C5  A suspended flow survives a restart: if save_session was called for *)
(* a machine whose context_stack is non-empty, the machine that            *)
(* get_or_create_session returns after a cache miss has the same stack     *)
(* depth, and restore_context() on it returns True and puts it back in the *)
(* suspended state with the suspended appointment_data.                    *)
(***************************************************************************)
C5_SuspendedFlowSurvives ==
    (/\ Resolving /\ last.info.res.healthy
     /\ last.key \in DOMAIN persisted
     /\ persisted[last.key].context_stack.v # << >>) =>
        LET stack == persisted[last.key].context_stack.v
            top == stack[Len(stack)].v
            r == restore_context(heap, last.m)
        IN /\ Depth(heap, last.m) = Len(stack)
           /\ r.exc = NoExc
           /\ r.ret = True
           /\ get_state(r.h, last.m) = top.state
           /\ DateTimeEncoder(Deep(r.h, Attr(r.h, last.m, "appointment_data")))
                 = DateTimeEncoder(top.appointment_data)

(***************************************************************************)
(* C6  get_or_create_session(k) returns the cached machine if k is cached; *)
(* otherwise the machine rehydrated from the stored record of k; otherwise *)
(* a fresh machine in IDLE with empty appointment_data.  The machine it    *)
(* returns is the one the cache holds for k afterwards, and a call that    *)
(* directly follows another call for the same k returns the same machine.  *)
(***************************************************************************)
C6_GetOrCreate ==
    [][ last'.op = "get_or_create_session" =>
          LET k == last'.key
              res == last'.info.res
          IN /\ last'.exc = NoExc
             /\ k \in DOMAIN sessions' /\ sessions'[k] = last'.m
             /\ IF k \in DOMAIN sessions
                THEN /\ res.same
                     /\ Record(heap', last'.m) = Record(heap, sessions[k])
                ELSE IF res.healthy /\ k \in DOMAIN db
                        /\ db[k].state \in ConversationState
                THEN Record(heap', last'.m) =
                        [FreshRecord EXCEPT
                            !.state = Enum(db[k].state),
                            !.appointment_data = db[k].appointment_data,
                            !.context_stack = db[k].context_stack]
                ELSE Record(heap', last'.m) = FreshRecord
             /\ (last.op = "get_or_create_session" /\ last.key = k) =>
                    res.same /\ res.used = last.m
      ]_vars

\* a second call in a row, returning a machine that was rehydrated with data
C6_Witness ==
    /\ last.op = "get_or_create_session"
    /\ last.info.res.follows.op = "get_or_create_session"
    /\ last.info.res.same
    /\ get_state(heap, last.m) = Enum("COLLECTING_PATIENT_INFO")

(***************************************************************************)
(* C7  Eviction: clear_session(k) on a healthy storage removes both the    *)
(* cached machine and the stored row of k, and the get_or_create_session(k)*)
(* that follows returns a machine in IDLE with empty appointment_data.     *)
(***************************************************************************)
C7_Eviction ==
    /\ (last.op = "clear_session" /\ last.info.healthy) =>
          last.key \notin DOMAIN sessions /\ last.key \notin DOMAIN db
    /\ (/\ last.op = "get_or_create_session"
        /\ last.info.res.follows.op = "clear_session"
        /\ last.info.res.follows.healthy) =>
          /\ Record(heap, last.m) = FreshRecord
          /\ sessions[last.key] = last.m

\* the eviction removed a cached machine that had left IDLE and its row
C7_Witness ==
    /\ last.op = "get_or_create_session"
    /\ last.info.res.follows.op = "clear_session"
    /\ last.info.res.follows.healthy
    /\ last.info.res.follows.effect
    /\ last.info.res.healthy

(***************************************************************************)
(* C8  Corrupt record: when the row stored for k names a state that is not *)
(* a member of ConversationState, get_or_create_session(k) does not raise; *)
(* it returns a fresh machine in IDLE with empty data and caches it, and a *)
(* message for k is then processed as for a new session.                   *)
(***************************************************************************)
Corrupt(res) ==
    ~res.hit /\ res.healthy /\ res.row.found
    /\ res.row.state \notin ConversationState

C8_CorruptRecord ==
    /\ (last.op = "get_or_create_session" /\ Corrupt(last.info.res)) =>
          /\ last.exc = NoExc
          /\ Record(heap, last.m) = FreshRecord
          /\ sessions[last.key] = last.m
    /\ (last.op = "handle_incoming_message" /\ Corrupt(last.info.res)) =>
          /\ last.exc = NoExc
          /\ last.info.phase = "returned"
          /\ last.ret = Str("greeting")
          /\ Record(heap, last.m) = [FreshRecord EXCEPT !.state = Enum("GREETING")]

C8_Witness ==
    /\ last.op = "handle_incoming_message" /\ Corrupt(last.info.res)
    /\ last.info.res.row.state = "NOT_A_REAL_STATE"
    /\ get_state(heap, last.m) = Enum("GREETING")

(***************************************************************************)
(* C9  Storage read failure: if loading the record of k fails,             *)
(* get_or_create_session does not raise and returns a fresh IDLE machine   *)
(* as if no record existed; an error that comes out of                     *)
(* handle_incoming_message was raised by the driver step, never by the     *)
(* storage layer.                                                          *)
(***************************************************************************)
C9_ReadFailure ==
    /\ (Resolving /\ ~last.info.res.healthy) =>
          /\ last.exc = NoExc
          /\ Record(heap, last.m) = FreshRecord
          /\ sessions[last.key] = last.m
    /\ (last.op = "handle_incoming_message" /\ last.exc # NoExc) =>
          last.info.from = "driver"

\* the read failed although a row with progress was stored
C9_Witness ==
    /\ Resolving /\ ~last.info.res.healthy
    /\ last.key \in DOMAIN db
    /\ db[last.key].state = "CONFIRMING_APPOINTMENT"

(***************************************************************************)
(* C10  Storage write failure: if the write of save_session fails, the     *)
(* call returns normally, the stored row and the cached machine of k are   *)
(* left as they were, and the handle_incoming_message(k, ...) that follows *)
(* runs against that same cached machine.                                  *)
(***************************************************************************)
C10_WriteFailure ==
    [][ /\ (last'.op = "save_session" /\ ~last'.info.healthy) =>
              /\ last'.exc = NoExc
              /\ db' = db
              /\ last'.key \in DOMAIN sessions'
              /\ Record(heap', sessions'[last'.key])
                    = Record(heap, sessions[last'.key])
        /\ (/\ last'.op = "handle_incoming_message"
            /\ last'.info.phase = "returned"
            /\ ~last'.info.healthy) =>
              /\ last'.exc = NoExc
              /\ db' = db
              /\ last'.info.cached => sessions'[last'.key] = last'.m
        /\ (/\ Returned /\ ~last.info.healthy /\ last.info.cached
            /\ last'.op = "handle_incoming_message"
            /\ last'.key = last.key) =>
              /\ last'.info.res.hit
              /\ last'.info.res.same
              /\ last'.info.res.used = last.m
      ]_vars

\* after a failed write the next message advanced the same machine
C10_Witness ==
    /\ Returned
    /\ last.info.res.follows.op = "handle_incoming_message"
    /\ ~last.info.res.follows.healthy
    /\ last.info.res.follows.effect
    /\ last.info.res.same
    /\ get_state(heap, last.m) = Enum("COLLECTING_DATE")
    /\ last.key \notin DOMAIN db

(***************************************************************************)
(* C11  Every handle_incoming_message call that has begun persists the     *)
(* machine before it ends, on every path: when the call ends, by           *)
(* returning or by raising, while storage is healthy, the row stored for k *)
(* holds the state and the appointment_data the machine has then.          *)
(***************************************************************************)
Ended ==
    /\ last.op = "handle_incoming_message"
    /\ \/ last.info.phase = "returned" /\ last.info.healthy
       \/ last.info.phase = "raised"

C11_PersistOnEveryPath ==
    Ended =>
        /\ last.key \in DOMAIN db
        /\ Enum(db[last.key].state) = get_state(heap, last.m)
        /\ db[last.key].appointment_data =
              DateTimeEncoder(Deep(heap, Attr(heap, last.m, "appointment_data")))

(***************************************************************************)
(* SpecConc: callers that send a message for a session id while an earlier *)
(* handle_incoming_message call for it is suspended at an await.  The      *)
(* event loop runs each call from await to await; get_or_create_session    *)
(* and save_session contain no await.                                      *)
(***************************************************************************)
ConcMessages == { "Ola", "agendar consulta", "amanha", "2" }

ConcHandleIncomingMessage ==
    \E k \in Keys, msg \in ConcMessages : Len(tasks) < MaxTasks /\ Begin(k, msg)

ConcNext ==
    \/ GetOrCreateSession
    \/ ConcHandleIncomingMessage
    \/ ResumeSlots
    \/ Restart

SpecConc == Init /\ [][ConcNext]_vars

(***************************************************************************)
(* C12  Same-key serialization: two handle_incoming_message calls for the  *)
(* same session id never interleave: while a call is suspended at an       *)
(* await no other call for its id is in flight, and the machine stays as   *)
(* the call left it (the state it suspended in, the date it stored) until  *)
(* it resumes.                                                             *)
(***************************************************************************)
C12_SameKeySerialized ==
    \A i \in 1..Len(tasks) :
        /\ \A j \in 1..Len(tasks) : tasks[j].key = tasks[i].key => j = i
        /\ tasks[i].pc = "await_slots" =>
              /\ get_state(heap, tasks[i].m) = Enum("COLLECTING_DATE")
              /\ get_appointment_data(heap, tasks[i].m, "date")
                    = tasks[i].loc.appointment_date
        /\ tasks[i].pc = "await_create" =>
              get_state(heap, tasks[i].m) = Enum("BOOKING_APPOINTMENT")

\* the calls overlap and the second one has moved the machine on
C12_Interleaved ==
    \E i \in 1..Len(tasks) :
        /\ tasks[i].pc = "await_slots"
        /\ get_state(heap, tasks[i].m) = Enum("SHOWING_AVAILABLE_SLOTS")

(***************************************************************************)
(* C13  Concurrent creation: when several callers ask for the machine of   *)
(* a session id at the same time, one ConversationStateMachine exists for  *)
(* it and every caller holds that instance: each call in flight and each   *)
(* call that just ended holds the machine the cache holds for its id, and  *)
(* no other machine is referenced by anyone.                               *)
(***************************************************************************)
Machines(h) == { a \in 1..Len(h) : h[a].kind = "machine" }

C13_ConcurrentCreation ==
    /\ Cardinality(Machines(heap)) = Cardinality(DOMAIN sessions)
    /\ \A i \in 1..Len(tasks) :
          /\ tasks[i].key \in DOMAIN sessions
          /\ sessions[tasks[i].key] = tasks[i].m
    /\ last.m # 0 =>
          last.key \in DOMAIN sessions /\ sessions[last.key] = last.m

\* a session id that was never stored: two calls are in flight on its
\* machine and a third caller is handed the same machine
C13_Witness ==
    /\ Len(tasks) = 2
    /\ tasks[1].key = tasks[2].key
    /\ tasks[1].key \notin DOMAIN db
    /\ last.op = "get_or_create_session"
    /\ last.key = tasks[1].key
    /\ last.m = tasks[1].m /\ last.m = tasks[2].m

(***************************************************************************)
(* SpecIso: two session ids served by one ConversationManager; a call for  *)
(* one id may run while a call for the other is suspended at an await.     *)
(***************************************************************************)
IsoKeys == { "A", "B" }

IsoMessages == { "Ola", "agendar consulta", "amanha" }

IsoHandleIncomingMessage ==
    \E k \in IsoKeys, msg \in IsoMessages : ~InFlight(k) /\ Begin(k, msg)

IsoNext ==
    \/ IsoHandleIncomingMessage
    \/ ResumeSlots
    \/ Restart

SpecIso == Init /\ [][IsoNext]_vars

(***************************************************************************)
(* C14  Session isolation: a step of handle_incoming_message for session   *)
(* id A (its beginning or its resumption after an await, alone or while a  *)
(* call for another id is suspended) never changes the cached machine or   *)
(* the stored row of any other id B.                                       *)
(***************************************************************************)
C14_SessionIsolation ==
    [][ last'.op = "handle_incoming_message" =>
          \A k \in IsoKeys \ {last'.key} :
             /\ (k \in DOMAIN sessions') = (k \in DOMAIN sessions)
             /\ k \in DOMAIN sessions =>
                   Record(heap', sessions'[k]) = Record(heap, sessions[k])
             /\ StoredRow(db', k) = StoredRow(db, k)
      ]_vars

\* a call for one id returned with its row written while a call for the
\* other id is suspended, and the two sessions are at different points
C14_Witness ==
    /\ Returned /\ last.info.healthy
    /\ Len(tasks) = 1 /\ tasks[1].key # last.key
    /\ tasks[1].key \in DOMAIN db
    /\ db[last.key].state = "GREETING"
    /\ db[tasks[1].key].state = "COLLECTING_DATE"
    /\ get_state(heap, tasks[1].m) = Enum("COLLECTING_DATE")

(***************************************************************************)
(* C15  Context isolation: after save_context(), set_appointment_data(key, *)
(* value) on the live machine, adding a key or replacing a key's value,    *)
(* changes no snapshot on the context stack: the appointment_data stored   *)
(* in each pushed snapshot stays what it was.                              *)
(***************************************************************************)
\* the snapshots on the stack of a machine, as plain values
Snapshots(h, m) == Deep(h, Attr(h, m, "context_stack")).v

C15_ContextIsolation ==
    [][ last'.op = "set_appointment_data" =>
          /\ Len(Snapshots(heap', sm)) = Len(Snapshots(heap, sm))
          /\ \A i \in 1..Len(Snapshots(heap, sm)) :
                Snapshots(heap', sm)[i].v["appointment_data"]
                   = Snapshots(heap, sm)[i].v["appointment_data"]
      ]_vars

\* a value was replaced on the live machine; the snapshot keeps the old one
C15_Witness ==
    /\ last.op = "set_appointment_data"
    /\ Depth(heap, sm) = 1
    /\ Snapshots(heap, sm)[1].v["appointment_data"] = Dict([time |-> Str("14:00")])
    /\ get_appointment_data(heap, sm, "time") = Str("15:00")

(***************************************************************************)
(* SpecSMDeep: SpecSM with a caller that also changes, in place, a slot    *)
(* object it got from get_available_slots() or get_selected_slot().        *)
(***************************************************************************)
\* the slot objects the getters of the live machine give access to
LiveSlots(h, m) ==
    { v.v : v \in Range(h[get_available_slots(h, m).v].d) }
      \cup (IF get_selected_slot(h, m).t = "ref"
            THEN { get_selected_slot(h, m).v } ELSE {})

\* slot['available'] = False
SM_mutate_slot ==
    \E a \in LiveSlots(heap, sm) :
        /\ heap[a].d["available"] = True
        /\ SMStep("mutate_slot",
                  Res([heap EXCEPT ![a].d = Put(@, "available", False)],
                      None, NoExc))
        /\ UNCHANGED saved

SMDeepNext ==
    \/ SMNext
    \/ SM_mutate_slot

SpecSMDeep == SMInit /\ [][SMDeepNext]_vars

(***************************************************************************)
(* C16  save_context() stores a deep/value copy: no later mutation of the  *)
(* live record, including an in-place mutation of a slot object inside     *)
(* available_slots or of the selected_slot object, changes any field of a  *)
(* snapshot that is already on the stack.                                  *)
(***************************************************************************)
C16_DeepCopy ==
    [][ last'.op \notin {"save_context", "restore_context"} =>
          Snapshots(heap', sm) = Snapshots(heap, sm)
      ]_vars

\* a slot was changed on the live machine and the snapshot shows the change
C16_Aliased ==
    /\ last.op = "mutate_slot"
    /\ Depth(heap, sm) = 1
    /\ Snapshots(heap, sm)[1].v["available_slots"]
          = List(<< [SMSlot("09:00") EXCEPT !.v["available"] = False] >>)

(***************************************************************************)
(* SpecSMRead: SpecSM with a caller that also calls the methods that only  *)
(* read the machine: the getters, is_appointment_complete,                 *)
(* has_saved_context and to_dict.  None of them assigns to anything.       *)
(***************************************************************************)
Bool(b) == IF b THEN True ELSE False

\* to_dict: a new dict that holds the state's name and references to the
\* machine's own objects
to_dict(h, m) ==
    IF Attr(h, m, "state").t # "enum"
    THEN Res(h, None, "AttributeError")
    ELSE LET o == h[m].d IN
         Res(Append(h, Obj("dict",
                           [state |-> Str(o.state.v),
                            appointment_data |-> o.appointment_data,
                            available_slots |-> o.available_slots,
                            selected_slot |-> o.selected_slot,
                            context_stack |-> o.context_stack,
                            user_appointments |-> o.user_appointments])),
             Ref(Len(h) + 1), NoExc)

SMRead(op, r) ==
    /\ heap' = r.h
    /\ last' = Obs(op, "", sm, r.ret, r.exc, NoInfo)
    /\ UNCHANGED <<sm, saved, ops, sessions, db, tasks, persisted, held>>

SM_get_state ==
    SMRead("get_state", Res(heap, get_state(heap, sm), NoExc))

SM_get_appointment_data ==
    \E k \in SMKeys :
        SMRead("get_appointment_data",
               Res(heap, get_appointment_data(heap, sm, k), NoExc))

SM_get_available_slots ==
    SMRead("get_available_slots",
           Res(heap, Deep(heap, get_available_slots(heap, sm)), NoExc))

SM_get_selected_slot ==
    SMRead("get_selected_slot",
           Res(heap, Deep(heap, get_selected_slot(heap, sm)), NoExc))

SM_is_appointment_complete ==
    SMRead("is_appointment_complete",
           Res(heap, Bool(is_appointment_complete(heap, sm)), NoExc))

SM_has_saved_context ==
    SMRead("has_saved_context",
           Res(heap, Bool(has_saved_context(heap, sm)), NoExc))

\* the caller looks at the record and drops it
SM_to_dict ==
    \E r \in { to_dict(heap, sm) } :
        SMRead("to_dict", Res(heap, Deep(r.h, r.ret), r.exc))

SMReadNext ==
    \/ SMNext
    \/ SM_get_state
    \/ SM_get_appointment_data
    \/ SM_get_available_slots
    \/ SM_get_selected_slot
    \/ SM_is_appointment_complete
    \/ SM_has_saved_context
    \/ SM_to_dict

SpecSMRead == SMInit /\ [][SMReadNext]_vars

(***************************************************************************)
(* C17  Pop on empty stack: restore_context() on a machine whose           *)
(* context_stack is empty returns False and leaves state,                  *)
(* appointment_data, available_slots, selected_slot and context_stack      *)
(* unchanged; has_saved_context() returns True exactly when                *)
(* restore_context() would return True, and itself changes nothing.        *)
(***************************************************************************)
C17_PopOnEmpty ==
    [][ /\ (last'.op = "restore_context" /\ Depth(heap, sm) = 0) =>
              /\ last'.ret = False
              /\ last'.exc = NoExc
              /\ heap' = heap
        /\ last'.op = "has_saved_context" =>
              /\ last'.ret = Bool(restore_context(heap, sm).ret = True)
              /\ heap' = heap
      ]_vars

\* the failed pop found a machine with every working field set
C17_Witness ==
    /\ last.op = "restore_context"
    /\ last.ret = False
    /\ AllDiffer(Working(heap, sm), FreshRecord)

(***************************************************************************)
(* C18  The context stack is LIFO: each save_context() adds exactly one    *)
(* snapshot, of the working fields as they are, on top of the stack and    *)
(* leaves the ones below as they were; each successful restore_context()   *)
(* applies the snapshot on top, removes exactly that one and leaves the    *)
(* ones below as they were.  So after s1..sn are pushed, restores apply    *)
(* sn, then sn-1, ..., then s1.                                            *)
(***************************************************************************)
\* the working fields a snapshot holds
SnapFields(sn) ==
    [state |-> sn.v["state"],
     appointment_data |-> sn.v["appointment_data"],
     available_slots |-> sn.v["available_slots"],
     selected_slot |-> sn.v["selected_slot"]]

C18_Lifo ==
    [][ LET old == Snapshots(heap, sm)
            new == Snapshots(heap', sm)
        IN /\ last'.op = "save_context" =>
                 /\ Len(new) = Len(old) + 1
                 /\ SubSeq(new, 1, Len(old)) = old
                 /\ SnapFields(new[Len(new)]) = Working(heap, sm)
           /\ (last'.op = "restore_context" /\ old # << >>) =>
                 /\ last'.ret = True
                 /\ new = SubSeq(old, 1, Len(old) - 1)
                 /\ Working(heap', sm) = SnapFields(old[Len(old)])
      ]_vars

\* two different snapshots were on the stack: the restore applied the later
\* one and the earlier one is what remains
C18_Witness ==
    /\ last.op = "restore_context"
    /\ last.ret = True
    /\ last.info.expect.depth = 1
    /\ Depth(heap, sm) = 1
    /\ SnapFields(Snapshots(heap, sm)[1]) # Working(heap, sm)

(***************************************************************************)
(* C19  Among all operations of a ConversationStateMachine (transition_to, *)
(* the setters, the getters, clear_appointment_data,                       *)
(* is_appointment_complete, has_saved_context, save_context, to_dict,      *)
(* restore_context) none decreases the depth of context_stack except a     *)
(* restore_context() that returns True, which decreases it by one.         *)
(***************************************************************************)
C19_OnlyRestoreShrinks ==
    [][ Depth(heap', sm) < Depth(heap, sm) =>
          /\ last'.op = "restore_context"
          /\ last'.ret = True
          /\ Depth(heap', sm) = Depth(heap, sm) - 1
      ]_vars

\* clear_appointment_data acted on a machine with two suspended flows
C19_Witness ==
    /\ last.op = "clear_appointment_data"
    /\ Depth(heap, sm) = 2

(***************************************************************************)
(* C20  clear_appointment_data() sets appointment_data to empty,           *)
(* available_slots to empty and selected_slot to None, and leaves state    *)
(* and context_stack (its depth and the content of every snapshot) exactly *)
(* as they were.                                                           *)
(***************************************************************************)
C20_ClearWorkingData ==
    [][ last'.op = "clear_appointment_data" =>
          /\ Working(heap', sm) =
                [state |-> get_state(heap, sm),
                 appointment_data |-> Dict(<< >>),
                 available_slots |-> List(<< >>),
                 selected_slot |-> None]
          /\ Snapshots(heap', sm) = Snapshots(heap, sm)
      ]_vars

\* all three fields held something, the machine had left IDLE and a snapshot
\* with data was on the stack
C20_Witness ==
    /\ last.op = "clear_appointment_data"
    /\ last.info.cleared
    /\ get_state(heap, sm) # Enum("IDLE")
    /\ Depth(heap, sm) = 1
    /\ SnapFields(Snapshots(heap, sm)[1]).available_slots # List(<< >>)

(***************************************************************************)
(* C21  transition_to(next) is unconditional: from every state and for     *)
(* every member next of ConversationState the call raises nothing, leaves  *)
(* the machine in next (what get_state() then returns) and leaves          *)
(* appointment_data, available_slots, selected_slot and context_stack as   *)
(* they were.                                                              *)
(***************************************************************************)
\* the fields of a machine other than its state
Rest(h, m) == [Record(h, m) EXCEPT !.state = None]

C21_Unconditional ==
    [][ /\ last'.op = "transition_to" =>
              /\ last'.exc = NoExc
              /\ get_state(heap', sm) = last'.info.new_state
              /\ Rest(heap', sm) = Rest(heap, sm)
        /\ \A next \in ConversationState :
              LET r == transition_to(heap, sm, Enum(next)) IN
              /\ r.exc = NoExc
              /\ get_state(r.h, sm) = Enum(next)
              /\ Rest(r.h, sm) = Rest(heap, sm)
      ]_vars

\* the machine left OFF_TOPIC for COLLECTING_DATE with every other field set
\* and a snapshot on the stack
C21_Witness ==
    /\ last.op = "transition_to"
    /\ last.info.old_state = Enum("OFF_TOPIC")
    /\ last.info.new_state = Enum("COLLECTING_DATE")
    /\ get_state(heap, sm) = Enum("COLLECTING_DATE")
    /\ AllDiffer(Working(heap, sm), FreshRecord)
    /\ Depth(heap, sm) = 1

(***************************************************************************)
(* C22  Every machine there is (created fresh, changed by the driver or by *)
(* save_context/restore_context, or rehydrated from a row this program     *)
(* wrote) has a state that is a member of ConversationState, never None;   *)
(* a machine created for a session id that has no readable row is in IDLE. *)
(***************************************************************************)
C22_StateIsMember ==
    /\ \A a \in Machines(heap) :
          /\ get_state(heap, a).t = "enum"
          /\ get_state(heap, a).v \in ConversationState
    /\ (Resolving /\ ~(last.info.res.healthy /\ last.info.res.row.found)) =>
          get_state(heap, last.m) = Enum("IDLE")

\* a machine rehydrated from the row of a session that had reached the list
\* of slots
C22_Witness ==
    /\ Resolving
    /\ last.info.res.healthy
    /\ last.info.res.row.found
    /\ last.info.res.row.state = "SHOWING_AVAILABLE_SLOTS"
    /\ get_state(heap, last.m) = Enum("SHOWING_AVAILABLE_SLOTS")
    /\ Depth(heap, last.m) = 0

(***************************************************************************)
(* SpecSMFields: one machine whose caller sets fields of appointment_data  *)
(* (the four required ones and one more, to a text or to None), clears the *)
(* working data and asks is_appointment_complete().  last.info.keys is the *)
(* set of keys set through set_appointment_data since the last clear.      *)
(***************************************************************************)
KeysSet == IF last.op = "init" THEN {} ELSE last.info.keys

F_set_appointment_data ==
    \E k \in RequiredFields \cup {"notes"}, v \in {Str("x"), None} :
    \E r \in { set_appointment_data(heap, sm, k, v) } :
        /\ ops < MaxOps
        /\ ops' = ops + 1
        /\ heap' = Compact(r.h, << sm >>)
        /\ last' = Obs("set_appointment_data", "", sm, r.ret, r.exc,
                       [keys |-> KeysSet \cup {k}])
        /\ UNCHANGED <<sm, saved, sessions, db, tasks, persisted, held>>

F_clear_appointment_data ==
    \E r \in { clear_appointment_data(heap, sm) } :
        /\ ops < MaxOps
        /\ ops' = ops + 1
        /\ heap' = Compact(r.h, << sm >>)
        /\ last' = Obs("clear_appointment_data", "", sm, r.ret, r.exc,
                       [keys |-> {}])
        /\ UNCHANGED <<sm, saved, sessions, db, tasks, persisted, held>>

F_is_appointment_complete ==
    /\ last' = Obs("is_appointment_complete", "", sm,
                   Bool(is_appointment_complete(heap, sm)), NoExc,
                   [keys |-> KeysSet])
    /\ UNCHANGED <<heap, sm, saved, ops, sessions, db, tasks, persisted, held>>

FieldsNext ==
    \/ F_set_appointment_data
    \/ F_clear_appointment_data
    \/ F_is_appointment_complete

SpecSMFields == SMInit /\ [][FieldsNext]_vars

(***************************************************************************)
(* C23  is_appointment_complete() returns True if and only if date, time,  *)
(* patient_name and patient_email have all been set through                *)
(* set_appointment_data since the machine was created or last cleared: it  *)
(* is False while one of them is missing, True once the four are set,      *)
(* False again right after clear_appointment_data(); the call changes      *)
(* nothing.                                                                *)
(***************************************************************************)
C23_CompleteIffAllFour ==
    [][ last'.op = "is_appointment_complete" =>
          /\ last'.ret = Bool(\A f \in {"date", "time", "patient_name",
                                        "patient_email"} : f \in KeysSet)
          /\ last.op = "clear_appointment_data" => last'.ret = False
          /\ heap' = heap
      ]_vars

\* the four fields were set, one of them to None, and the answer was True
C23_Witness ==
    /\ last.op = "is_appointment_complete"
    /\ last.ret = True
    /\ last.info.keys = {"date", "time", "patient_name", "patient_email"}
    /\ get_appointment_data(heap, sm, "patient_email") = None
    /\ ops = 4

(***************************************************************************)
(* SpecSMDict: SpecSM's machine with a caller that keeps the record        *)
(* to_dict() returned (held.rec), builds a second machine with from_dict   *)
(* (held.copy), from that record or from a record of its own making, and   *)
(* goes on using both machines.                                            *)
(***************************************************************************)
\* from_dict that restores what get_or_create_session restores: the state,
\* appointment_data and context_stack
from_dict_partial(h, data) ==
    LET d == h[data].d
        name == IF "state" \in DOMAIN d THEN d["state"] ELSE Str("IDLE")
        fresh == ConversationStateMachine(h)
        m == fresh.ret.v
    IN IF ~(name.t = "str" /\ name.v \in ConversationState)
       THEN Res(fresh.h, None, "KeyError")
       ELSE Res([fresh.h EXCEPT ![m].d =
                   [a \in DOMAIN @ |->
                      IF a = "state" THEN Enum(name.v)
                      ELSE IF a \in (DOMAIN d)
                                      \cap {"appointment_data", "context_stack"}
                           THEN d[a] ELSE @[a]]],
                fresh.ret, NoExc)

\* from_dict that falls back to IDLE when the state name is not a member
from_dict_defaulting(h, data) ==
    LET d == h[data].d
        name == IF "state" \in DOMAIN d THEN d["state"] ELSE Str("IDLE")
        fresh == ConversationStateMachine(h)
        m == fresh.ret.v
    IN Res([fresh.h EXCEPT ![m].d =
              [a \in DOMAIN @ |->
                 IF a = "state"
                 THEN (IF name.t = "str" /\ name.v \in ConversationState
                       THEN Enum(name.v) ELSE Enum("IDLE"))
                 ELSE IF a \in DOMAIN d THEN d[a] ELSE @[a]]],
           fresh.ret, NoExc)

\* data: the address of a dict.  ConversationState[name] raises KeyError for
\* anything that is not the name of a member; a key that is missing leaves
\* the new machine's own empty value (the default of data.get)
from_dict(h, data) ==
    LET d == h[data].d
        name == IF "state" \in DOMAIN d THEN d["state"] ELSE Str("IDLE")
        fresh == ConversationStateMachine(h)
        m == fresh.ret.v
    IN IF ~(name.t = "str" /\ name.v \in ConversationState)
       THEN Res(fresh.h, None, "KeyError")
       ELSE Res([fresh.h EXCEPT ![m].d =
                   [a \in DOMAIN @ |->
                      IF a = "state" THEN Enum(name.v)
                      ELSE IF a \in DOMAIN d THEN d[a] ELSE @[a]]],
                fresh.ret, NoExc)

\* rec = m.to_dict()
D_to_dict ==
    \E r \in { to_dict(heap, sm) } :
        /\ ops < MaxOps
        /\ ops' = ops + 1
        /\ SMCommit(r.h, Put(held, "rec", r.ret.v))
        /\ last' = Obs("to_dict", "", sm, None, r.exc, NoInfo)
        /\ UNCHANGED <<sm, saved, sessions, db, tasks, persisted>>

\* copy = ConversationStateMachine.from_dict(rec); info.data: rec as it was
D_from_dict ==
    /\ "rec" \in DOMAIN held
    /\ \E r \in { from_dict(heap, held.rec) } :
        /\ ops < MaxOps
        /\ ops' = ops + 1
        /\ SMCommit(r.h, Put(held, "copy", r.ret.v))
        /\ last' = Obs("from_dict", "", sm, None, r.exc,
                       [data |-> Deep(heap, Ref(held.rec)), of |-> "rec"])
        /\ UNCHANGED <<sm, saved, sessions, db, tasks, persisted>>

\* from_dict on a record the caller wrote itself: without a state field,
\* with a name that is no member, with None for the name, with a member
D_from_dict_record ==
    \E x \in { Dict([appointment_data |-> Dict([time |-> Str("14:00")])]),
               Dict([state |-> Str("NOT_A_REAL_STATE")]),
               Dict([state |-> None]),
               Dict([state |-> Str("GREETING")]) } :
    \E b \in { Build(heap, x) } : \E r \in { from_dict(b.h, b.ret.v) } :
        /\ ops < MaxOps
        /\ ops' = ops + 1
        /\ SMCommit(r.h, IF r.exc = NoExc THEN Put(held, "copy", r.ret.v)
                         ELSE held)
        /\ last' = Obs("from_dict", "", sm, None, r.exc,
                       [data |-> x, of |-> "record"])
        /\ UNCHANGED <<sm, saved, sessions, db, tasks, persisted>>

\* the caller uses the machine from_dict gave it
D_copy_set_appointment_data ==
    /\ "copy" \in DOMAIN held
    /\ \E k \in SMKeys, v \in SMValues :
       \E r \in { set_appointment_data(heap, held.copy, k, v) } :
        /\ ops < MaxOps
        /\ ops' = ops + 1
        /\ SMCommit(r.h, held)
        /\ last' = Obs("copy.set_appointment_data", "", sm, None, r.exc, NoInfo)
        /\ UNCHANGED <<sm, saved, sessions, db, tasks, persisted>>

DictNext ==
    \/ SMNext
    \/ D_to_dict
    \/ D_from_dict
    \/ D_from_dict_record
    \/ D_copy_set_appointment_data

SpecSMDict == SMInit /\ [][DictNext]_vars

(***************************************************************************)
(* C24  Round trip: for every machine m the operations lead to,            *)
(* from_dict(to_dict(m)) has state, appointment_data, available_slots,     *)
(* selected_slot and context_stack equal field for field to those of m,    *)
(* and to_dict(from_dict(x)) == x for every record x that to_dict made.    *)
(***************************************************************************)
C24_RoundTrip ==
    [][ /\ last'.op = "to_dict" =>
              LET f == from_dict(heap', held'.rec) IN
              /\ last'.exc = NoExc /\ f.exc = NoExc
              /\ Record(f.h, f.ret.v) = Record(heap, sm)
        /\ (last'.op = "from_dict" /\ last'.info.of = "rec") =>
              LET t == to_dict(heap', held'.copy) IN
              /\ last'.exc = NoExc /\ t.exc = NoExc
              /\ Deep(t.h, t.ret) = last'.info.data
              /\ Deep(t.h, t.ret) = Deep(heap, Ref(held.rec))
      ]_vars

\* the machine from_dict built holds data, a list of slots, the slot chosen
\* and a snapshot, as the machine whose record it was built from does
C24_Witness ==
    /\ last.op = "from_dict" /\ last.info.of = "rec"
    /\ Record(heap, held.copy) = Record(heap, sm)
    /\ AllDiffer([Working(heap, held.copy) EXCEPT !.state = None], FreshRecord)
    /\ Depth(heap, held.copy) = 1

(***************************************************************************)
(* C25  from_dict on a record whose state field is not the name of a       *)
(* member of ConversationState fails with an error and gives the caller no *)
(* machine, in IDLE or in any other state; from_dict on a record that has  *)
(* no state field gives a machine in IDLE.                                 *)
(***************************************************************************)
C25_CorruptState ==
    [][ last'.op = "from_dict" =>
          LET x == last'.info.data.v IN
          IF "state" \notin DOMAIN x
          THEN /\ last'.exc = NoExc
               /\ get_state(heap', held'.copy) = Enum("IDLE")
          ELSE IF x["state"] \notin { Str(s) : s \in ConversationState }
          THEN /\ last'.exc # NoExc
               /\ Machines(heap') = Machines(heap)
               /\ held' = held
          ELSE /\ last'.exc = NoExc
               /\ get_state(heap', held'.copy) = Enum(x["state"].v)
      ]_vars

\* the caller already had a machine from from_dict when the record with the
\* unknown name was refused
C25_Witness ==
    /\ last.op = "from_dict"
    /\ last.info.data = Dict([state |-> Str("NOT_A_REAL_STATE")])
    /\ last.exc = "KeyError"
    /\ "copy" \in DOMAIN held
    /\ get_state(heap, held.copy) = Enum("GREETING")

(***************************************************************************)
(* C26  to_dict() returns a value-type snapshot: once rec = m.to_dict() is *)
(* taken, no set_appointment_data, set_available_slots, save_context,      *)
(* restore_context or clear_appointment_data on m changes rec; and a       *)
(* machine built by from_dict shares nothing with m: a change made through *)
(* one of the two machines never shows in the other.                       *)
(***************************************************************************)
C26_ValueSnapshot ==
    [][ /\ ("rec" \in DOMAIN held
              /\ last'.op \in {"set_appointment_data", "set_available_slots",
                               "save_context", "restore_context",
                               "clear_appointment_data"}) =>
              Deep(heap', Ref(held'.rec)) = Deep(heap, Ref(held.rec))
        /\ ("copy" \in DOMAIN held
              /\ last'.op \in {"set_appointment_data", "set_available_slots",
                               "save_context", "restore_context",
                               "clear_appointment_data"}) =>
              Record(heap', held'.copy) = Record(heap, held.copy)
        /\ last'.op = "copy.set_appointment_data" =>
              Record(heap', sm) = Record(heap, sm)
      ]_vars

\* set_appointment_data on the machine wrote into the dict that the record
\* taken before also refers to
C26_Aliased ==
    /\ last.op = "set_appointment_data"
    /\ "rec" \in DOMAIN held
    /\ heap[held.rec].d["appointment_data"] = Attr(heap, sm, "appointment_data")
    /\ Deep(heap, Ref(held.rec)).v["appointment_data"]
          = Dict([time |-> Str("14:00")])
    /\ ops = 2

(***************************************************************************)
(* The driver steps of Spec, seen from outside.  A step whose observation  *)
(* names a machine is a piece of handle_message: from the start of a call  *)
(* to its first await or its end, or from an await to the end.             *)
(***************************************************************************)
\* the record of the machine as the driver code of this step found it: the
\* machine of the suspended call, the cached machine, or the one rehydrated
Before ==
    IF tasks # << >> THEN Record(heap, tasks[1].m)
    ELSE IF last'.info.res.hit THEN Record(heap, last'.info.res.used)
    ELSE LET g == get_or_create_session(heap, sessions, db, last'.key,
                                        last'.info.res.healthy)
         IN Record(g.h, g.ret.v)

(***************************************************************************)
(* C27  On a machine driven only through handle_message, selected_slot is  *)
(* set only in SHOWING_AVAILABLE_SLOTS, for a typed number n with          *)
(* 1 <= n <= len(available_slots), and then to available_slots[n-1] of the *)
(* list the machine holds at that moment; for any other input in that      *)
(* state selected_slot and state stay as they were, and in any other state *)
(* selected_slot is at most reset to None.                                 *)
(***************************************************************************)
C27_SelectedFromOffered ==
    [][ (last'.op = "handle_incoming_message" /\ last'.m # 0) =>
          LET b == Before
              a == Record(heap', last'.m)
              n == IntOf(last'.info.res.msg)
          IN IF /\ tasks = << >>
                /\ b.state = Enum("SHOWING_AVAILABLE_SLOTS")
                /\ n \in 1..Len(b.available_slots.v)
             THEN /\ a.selected_slot = b.available_slots.v[n]
                  /\ a.available_slots = b.available_slots
                  /\ get_selected_slot(heap', last'.m)
                        = heap'[get_available_slots(heap', last'.m).v].d[n]
             ELSE /\ a.selected_slot \in {b.selected_slot, None}
                  /\ b.state = Enum("SHOWING_AVAILABLE_SLOTS") =>
                        /\ a.selected_slot = b.selected_slot
                        /\ a.state = b.state
      ]_vars

\* "2" was typed at the list of four slots and the second one is selected
C27_Witness ==
    /\ Returned
    /\ last.info.res.msg = "2"
    /\ last.ret = Str("slot_selected")
    /\ Len(heap[get_available_slots(heap, last.m).v].d) = 4
    /\ get_selected_slot(heap, last.m)
          = heap[get_available_slots(heap, last.m).v].d[2]
    /\ get_selected_slot(heap, last.m)
          # heap[get_available_slots(heap, last.m).v].d[1]

C29_FlowFinished ==
    [][ ( /\ last'.op = "handle_incoming_message" /\ last'.m # 0
          /\ last'.info.phase = "returned"
          /\ Before.state \in { Enum("CONFIRMING_APPOINTMENT"),
                                Enum("BOOKING_APPOINTMENT") }
          /\ get_state(heap', last'.m) = Enum("IDLE") ) =>
          /\ Deep(heap', Attr(heap', last'.m, "appointment_data")) = Dict(<< >>)
          /\ Deep(heap', get_available_slots(heap', last'.m)) = List(<< >>)
          /\ get_selected_slot(heap', last'.m) = None
      ]_vars

\* create_event raised: the session is back in IDLE with the four fields of
\* the failed booking, the list of slots and the chosen slot still there
C29_StaleData ==
    /\ Returned
    /\ last.ret = Str("booking_error")
    /\ get_state(heap, last.m) = Enum("IDLE")
    /\ is_appointment_complete(heap, last.m)
    /\ get_selected_slot(heap, last.m) # None
    /\ Len(heap[get_available_slots(heap, last.m).v].d) = 4

(***************************************************************************)
(* C30  Interruption: in whatever state a session is, there is an          *)
(* off-topic message that handle_incoming_message answers by putting the   *)
(* flow on the context stack and moving the session to OFF_TOPIC; and no   *)
(* message moves a session out of OFF_TOPIC, which only restore_context()  *)
(* leaves.                                                                 *)
(***************************************************************************)
C30_Interruption ==
    \A k \in DOMAIN sessions :
        ~InFlight(k) =>
            LET m == sessions[k]
                msgs == Messages \cup {"Qual foi o placar do jogo?"}
            IN /\ \E msg \in msgs :
                    LET b == handle_message(heap, m, msg) IN
                    /\ b.kind = "return"
                    /\ get_state(b.h, m) = Enum("OFF_TOPIC")
                    /\ Depth(b.h, m) = Depth(heap, m) + 1
               /\ get_state(heap, m) = Enum("OFF_TOPIC") =>
                    \A msg \in msgs :
                        get_state(handle_message(heap, m, msg).h, m)
                            = Enum("OFF_TOPIC")

\* a greeting typed where a date was asked for: the driver asks again, the
\* session stays in COLLECTING_DATE and nothing is put on the context stack
C30_NoInterruption ==
    /\ Returned
    /\ last.info.res.msg = "Ola"
    /\ last.ret = Str("retry_date")
    /\ get_state(heap, last.m) = Enum("COLLECTING_DATE")
    /\ Depth(heap, last.m) = 0

(***************************************************************************)
(* SpecBook: a whole booking conversation for one session id, in which the *)
(* user may repeat a date or a confirmation before the call for the        *)
(* earlier one has returned: such a call begins while the earlier one is   *)
(* suspended at get_available_slots or at create_event.                    *)
(***************************************************************************)
BookHandleIncomingMessage ==
    \E k \in Keys :
    \E msg \in { "Ola", "agendar consulta", "hoje", "amanha", "2",
                 "Ana Silva ana@example.com", "sim" } :
        /\ Len(tasks) < MaxTasks
        /\ ~InFlight(k) \/ msg \in { "hoje", "amanha", "sim" }
        /\ Begin(k, msg)

BookNext ==
    \/ BookHandleIncomingMessage
    \/ ResumeSlots
    \/ ResumeCreate
    \/ Restart

SpecBook == Init /\ [][BookNext]_vars

(***************************************************************************)
(* C31  Restart transparency: a message processed by                       *)
(* handle_incoming_message on the machine rehydrated from storage after a  *)
(* restart leads to the state it leads to on the machine that was saved,   *)
(* and raises an error only if it does so there: the rest of a booking     *)
(* conversation goes the way it goes without the restart.                  *)
(***************************************************************************)
C31_RestartTransparent ==
    [][ ( /\ last'.op = "handle_incoming_message" /\ last'.m # 0
          /\ tasks = << >>
          /\ ~last'.info.res.hit /\ last'.info.res.healthy
          /\ last'.key \in DOMAIN persisted ) =>
          LET was == Build(heap, [t |-> "machine",
                                  v |-> [user_appointments |-> List(<< >>)]
                                           @@ persisted[last'.key]])
              e == handle_message(was.h, was.ret.v, last'.info.res.msg)
          IN /\ get_state(heap', last'.m) = get_state(e.h, was.ret.v)
             /\ (last'.info.phase = "raised") <=> (e.kind = "raise")
      ]_vars

\* after a restart the session is back at the list of slots, the list is
\* gone, and the number typed is answered with 'choose in range'
C31_LostSlots ==
    /\ Returned
    /\ ~last.info.res.hit /\ last.info.res.healthy
    /\ last.key \in DOMAIN persisted
    /\ last.info.res.msg = "2"
    /\ last.ret = Str("choose_in_range")
    /\ get_state(heap, last.m) = Enum("SHOWING_AVAILABLE_SLOTS")
    /\ last.info.res.row.state = "SHOWING_AVAILABLE_SLOTS"

(***************************************************************************)
(* C32  No wedged session: for every session the manager holds between two *)
(* handle_incoming_message calls (built in memory, rehydrated after a      *)
(* restart, or left by a driver step that failed) there is a message whose *)
(* processing, up to the end of the call, changes the conversation state.  *)
(***************************************************************************)
C32_NoWedgedSession ==
    \A k \in DOMAIN sessions :
        ~InFlight(k) =>
            LET m == sessions[k] IN
            \E msg \in Messages :
                LET b == handle_message(heap, m, msg)
                    e == IF b.kind = "await_slots"
                         THEN handle_message_slots(b.h, m, b.loc)
                         ELSE IF b.kind = "await_create"
                         THEN handle_message_created(b.h, m, b.loc, TRUE)
                         ELSE b
                IN get_state(e.h, m) # get_state(heap, m)

\* the session rehydrated at the list of slots has no list: whatever number
\* is typed, the answer is 'choose between 1 and 0'
C32_Wedged ==
    /\ last.op = "get_or_create_session"
    /\ ~last.info.res.hit
    /\ get_state(heap, last.m) = Enum("SHOWING_AVAILABLE_SLOTS")
    /\ Len(heap[get_available_slots(heap, last.m).v].d) = 0
    /\ \A msg \in Messages :
          handle_message(heap, last.m, msg).ret
              \in { Str("digits_only"), Str("choose_in_range") }

(***************************************************************************)
(* C33  No double booking: create_event is called only by a call that      *)
(* found the session in CONFIRMING_APPOINTMENT, and never while another    *)
(* call for that session is suspended at create_event; so one pass through *)
(* CONFIRMING_APPOINTMENT issues it at most once, also when several 'sim'  *)
(* messages for the session overlap.                                       *)
(***************************************************************************)
C33_NoDoubleBooking ==
    [][ ( /\ Len(tasks') = Len(tasks) + 1
          /\ tasks'[Len(tasks')].pc = "await_create" ) =>
          LET t == tasks'[Len(tasks')] IN
          /\ \A i \in 1..Len(tasks) :
                ~(tasks[i].key = t.key /\ tasks[i].pc = "await_create")
          /\ IF t.res.hit
             THEN get_state(heap, t.res.used) = Enum("CONFIRMING_APPOINTMENT")
             ELSE /\ t.res.row.found
                  /\ t.res.row.state = "CONFIRMING_APPOINTMENT"
      ]_vars

\* a second 'sim' arrived while the call for the first was suspended at
\* create_event: it found BOOKING_APPOINTMENT and got the fallback reply
C33_Witness ==
    /\ Returned
    /\ last.info.res.msg = "sim"
    /\ last.ret = Str("fallback")
    /\ get_state(heap, last.m) = Enum("BOOKING_APPOINTMENT")
    /\ \E i \in 1..Len(tasks) :
          /\ tasks[i].key = last.key
          /\ tasks[i].pc = "await_create"
          /\ tasks[i].m = last.m

(***************************************************************************)
(* C34  create_event is called only when appointment_data of the session   *)
(* holds date, time, patient_name and patient_email                        *)
(* (is_appointment_complete() is True while the call is awaited), whatever *)
(* messages and restarts led to the call.                                  *)
(***************************************************************************)
C34_CompleteAtBooking ==
    \A i \in 1..Len(tasks) :
        tasks[i].pc = "await_create" =>
            /\ is_appointment_complete(heap, tasks[i].m)
            /\ tasks[i].loc.appointment_date
                  = get_appointment_data(heap, tasks[i].m, "date")
            /\ tasks[i].loc.appointment_date # None

\* the call was made for a session rehydrated after a restart: the four
\* fields are there, the date as text
C34_Witness ==
    /\ Len(tasks) = 1
    /\ tasks[1].pc = "await_create"
    /\ ~tasks[1].res.hit
    /\ tasks[1].res.row.state = "CONFIRMING_APPOINTMENT"
    /\ is_appointment_complete(heap, tasks[1].m)
    /\ get_appointment_data(heap, tasks[1].m, "date") = Str(Tomorrow)

(***************************************************************************)
(* C35  Date/slot consistency: whenever a cached session is in             *)
(* SHOWING_AVAILABLE_SLOTS, its available_slots are the slots fetched for  *)
(* the date stored in appointment_data['date'], also when two date         *)
(* messages for the session overlap while the slot lookup is awaited.      *)
(***************************************************************************)
C35_DateSlotConsistency ==
    \A k \in DOMAIN sessions :
        get_state(heap, sessions[k]) = Enum("SHOWING_AVAILABLE_SLOTS") =>
            LET d == get_appointment_data(heap, sessions[k], "date") IN
            /\ d.t \in {"date", "str"}
            /\ Deep(heap, Attr(heap, sessions[k], "available_slots"))
                  = DefaultSlots(d)

\* 'hoje' and 'amanha' overlapped: the call for 'hoje' resumed last and
\* stored today's slots under the date of tomorrow
C35_Mismatch ==
    /\ Returned
    /\ last.info.res.msg = "hoje"
    /\ last.ret = Str("slots_offered")
    /\ last.key \in DOMAIN sessions /\ sessions[last.key] = last.m
    /\ get_state(heap, last.m) = Enum("SHOWING_AVAILABLE_SLOTS")
    /\ get_appointment_data(heap, last.m, "date") = Date(Tomorrow)
    /\ Deep(heap, Attr(heap, last.m, "available_slots"))
          = DefaultSlots(Date(Today))

(***************************************************************************)
(* C36  Eviction is final: after clear_session(k) has completed, with      *)
(* storage holding no record for k and the cache no machine for k, a       *)
(* handle_incoming_message(k) call that was already suspended at an await  *)
(* leaves both that way when it resumes and ends.                          *)
(***************************************************************************)
C36_EvictionFinal ==
    [][ \A k \in Keys :
          ( /\ k \notin DOMAIN sessions
            /\ k \notin DOMAIN db
            /\ Len(tasks') < Len(tasks)
            /\ last'.op = "handle_incoming_message"
            /\ last'.key = k ) =>
              /\ k \notin DOMAIN sessions'
              /\ k \notin DOMAIN db'
      ]_vars

\* clear_session removed the machine and the row of a session whose call is
\* suspended at an await
C36_ClearedInFlight ==
    /\ last.op = "clear_session"
    /\ last.info.healthy /\ last.info.deleted
    /\ last.exc = NoExc
    /\ InFlight(last.key)
    /\ last.key \notin DOMAIN sessions
    /\ last.key \notin DOMAIN db

(***************************************************************************)
(* C37  A transient storage read failure does not destroy stored progress: *)
(* when k has a row and its load fails in get_or_create_session, the       *)
(* save_session that follows the message leaves the row of k as it was,    *)
(* it does not write the state of the fresh fallback machine over it.      *)
(***************************************************************************)
C37_ReadFailureKeepsRow ==
    [][ ( /\ last'.op = "handle_incoming_message"
          /\ Len(tasks') = Len(tasks)
          /\ ~last'.info.res.hit
          /\ ~last'.info.res.healthy
          /\ last'.key \in DOMAIN db ) =>
              /\ last'.key \in DOMAIN db'
              /\ db'[last'.key] = db[last'.key]
      ]_vars

\* the row said SHOWING_AVAILABLE_SLOTS, its load failed, and the call wrote
\* GREETING with empty appointment_data over it
C37_Overwritten ==
    /\ Returned
    /\ ~last.info.res.hit /\ ~last.info.res.healthy
    /\ last.info.res.row.found
    /\ last.info.res.row.state = "SHOWING_AVAILABLE_SLOTS"
    /\ last.info.healthy
    /\ db[last.key].state = "GREETING"
    /\ db[last.key].appointment_data # last.info.res.row.appointment_data

(***************************************************************************)
(* C38  Whenever a cached session is in SHOWING_AVAILABLE_SLOTS between    *)
(* two handle_incoming_message calls, its available_slots list is          *)
(* non-empty.                                                              *)
(***************************************************************************)
C38_SlotsWhileShowing ==
    \A k \in DOMAIN sessions :
        ( /\ ~InFlight(k)
          /\ get_state(heap, sessions[k]) = Enum("SHOWING_AVAILABLE_SLOTS") ) =>
              Len(heap[get_available_slots(heap, sessions[k]).v].d) > 0

\* a session rehydrated in SHOWING_AVAILABLE_SLOTS has answered a message
\* and is still there with no slots
C38_EmptyWhileShowing ==
    /\ Returned
    /\ ~last.info.res.hit
    /\ last.info.res.row.found
    /\ last.info.res.row.state = "SHOWING_AVAILABLE_SLOTS"
    /\ last.ret = Str("digits_only")
    /\ last.key \in DOMAIN sessions /\ sessions[last.key] = last.m
    /\ tasks = << >>
    /\ get_state(heap, last.m) = Enum("SHOWING_AVAILABLE_SLOTS")
    /\ Len(heap[get_available_slots(heap, last.m).v].d) = 0

\* format_available_slots: the numbered start times of slots[:6]
format_available_slots(slots) ==
    [i \in 1..(IF Len(slots) < 6 THEN Len(slots) ELSE 6) |->
        [n |-> i, start_time |-> StartTime(slots[i].v["start"].v)]]

====
